---- MODULE Spec2Model ----
(***************************************************************************)
(* A model of the OCPP 1.6J charging gateway (src/chargingService):        *)
(*   - the retry/error coordinator      (ocpp_error_handler.py)            *)
(*   - the protocol engine              (ocpp_service.py)                  *)
(*   - the session manager              (charging_session.py)              *)
(*   - the pile registry                (pile_manager.py)                  *)
(*   - the connection pool              (websocket_optimizer.py)           *)
(* Each subsystem has its own specification over its own variables; the    *)
(* variables of the other subsystems stay at their initial values.         *)
(*                                                                         *)
(* Numbers.  Python floats are kept as integers: delays in whole seconds,  *)
(* energy, power and meter readings in thousandths (x * 1000), cost in     *)
(* two-thousandths (x * 2000, so that energy * 1.5 stays whole).           *)
(* Optional values (Python None) are sets with at most one element.        *)
(***************************************************************************)
EXTENDS Integers, Sequences, FiniteSets, Bags, TLC

VARIABLES
    \* ---- retry/error coordinator (OCPPErrorHandler) ----
    rPc,          \* position of the one execute_with_retry call being followed
    rAction,      \* its action argument
    rPile,        \* its pile_id argument
    rAttempt,     \* the loop variable `attempt`
    rHistory,     \* outcomes of the operation's invocations in this call, in order
    rDelays,      \* the delays this call has slept, in order
    rLastError,   \* the local variable `last_error`
    rRuns,        \* number of execute_with_retry calls started so far
    error_stats,  \* OCPPErrorHandler.error_stats: "pile:action" -> counters
    \* ---- session manager (ChargingSessionManager) ----
    sessions,                \* session_id -> ChargingSession
    transaction_sessions,    \* transaction_id -> session_id
    total_sessions,
    total_energy_delivered,
    \* ---- pile registry (ChargingPileManager) ----
    piles,                   \* pile_id -> ChargingPile
    \* ---- protocol engine (OCPPService) ----
    pending_requests,        \* message_id -> [action, pile_id]
    clock,                   \* the wall clock, in milliseconds
    txAllocated,             \* the ids generate_transaction_id has returned, in order
    request,                 \* the last operation handled and its arguments
    response,                \* what it returned (or raised)
    \* ---- connection pool (WebSocketOptimizer) ----
    connections,             \* connection_id -> EnhancedConnection
    pile_connections,        \* pile_id -> list of connection ids
    connection_load,         \* connection_id -> load
    poolClock,               \* the wall clock the pool reads, in milliseconds
    objects,                 \* every EnhancedConnection built so far, in order
    calls,                   \* the bag of pool calls suspended at an await
    lastSend,                \* the last send_message_to_pile call and its result
    \* ---- calculate_delay called on its own ----
    delayCall,               \* the arguments of the last call, if any
    delayResult,             \* what it returned or raised
    \* ---- one connection's message queue ----
    message_queue,           \* the heap of the connection's PriorityQueue
    batch,                   \* the batch of the message processor
    processor,               \* where the message processor task is
    queue_state,             \* the connection's state
    queueClock,              \* datetime.now()
    created,                 \* the number of QueuedMessage objects built
    handed,                  \* message -> the times send_json was called with it
    callbacks,               \* message -> the calls of its callback
    send_failures,           \* the number of send_json calls that raised
    fate,                    \* message -> pending, delivered or dropped
    queue_maxsize,           \* the maxsize of the connection's PriorityQueue
    \* ---- get_pile_health_status ----
    health,                  \* the last call and what it returned
    \* ---- remote_start_transaction ----
    remote,                  \* its arguments, the messages sent, its result
    \* ---- reconnection (WebSocketOptimizer) ----
    reconnect_tasks,         \* connection id -> the reconnect task last created
    tasks,                   \* reconnect task -> its connection and where it is
    scopes                   \* connection id -> its connect_pile context, open or ended

retryVars == <<rPc, rAction, rPile, rAttempt, rHistory, rDelays, rLastError, rRuns,
               error_stats>>
sessionVars == <<sessions, transaction_sessions, total_sessions,
                 total_energy_delivered>>
engineVars == <<piles, pending_requests, clock, txAllocated, request, response>>

poolVars == <<connections, pile_connections, connection_load, poolClock, objects,
              calls, lastSend>>

delayVars == <<delayCall, delayResult>>

\* The variables of the parts that are followed on their own.
queueVars == <<message_queue, batch, processor, queue_state, queueClock,
               created, handed, callbacks, send_failures, fate, queue_maxsize>>

healthVars == <<health>>

remoteVars == <<remote>>

reconnVars == <<reconnect_tasks, tasks, scopes>>

restVars == <<delayVars, queueVars, healthVars, remoteVars, reconnVars>>

vars == <<retryVars, sessionVars, engineVars, poolVars, restVars>>

None == {}
Some(x) == {x}
Val(o) == CHOOSE x \in o : TRUE

Min(a, b) == IF a <= b THEN a ELSE b

RECURSIVE Pow2(_)
Pow2(n) == IF n = 0 THEN 1 ELSE 2 * Pow2(n - 1)

\* Pile identifiers: p1, and one that has a colon in it.
Piles == {"p1", "p1:x"}

\* The text of an identifier as the sequence of its pieces between colons,
\* the colons included.
Tokens(id) == IF id = "p1:x" THEN <<"p1", ":", "x">> ELSE <<id>>

\* str.startswith
StartsWith(s, prefix) ==
    Len(prefix) <= Len(s) /\ SubSeq(s, 1, Len(prefix)) = prefix

(***************************************************************************)
(*                      RETRY / ERROR COORDINATOR                          *)
(***************************************************************************)

\* Bound on the number of execute_with_retry calls followed in one behaviour.
MaxRuns == 1

RetryActions == {"RemoteStartTransaction", "RemoteStopTransaction", "Reset",
                 "UnlockConnector", "GetConfiguration"}

\* OCPPErrorHandler.__init__: the per-action policies (seconds).
retry_configs ==
    [a \in {"RemoteStartTransaction", "RemoteStopTransaction", "Reset",
            "UnlockConnector", "default"} |->
       CASE a = "RemoteStartTransaction" ->
              [max_retries |-> 3, strategy |-> "exponential_backoff",
               base_delay |-> 2, max_delay |-> 30, timeout |-> 30]
         [] a = "RemoteStopTransaction" ->
              [max_retries |-> 3, strategy |-> "exponential_backoff",
               base_delay |-> 2, max_delay |-> 30, timeout |-> 30]
         [] a = "Reset" ->
              [max_retries |-> 2, strategy |-> "fixed_interval",
               base_delay |-> 5, max_delay |-> 60, timeout |-> 60]
         [] a = "UnlockConnector" ->
              [max_retries |-> 2, strategy |-> "linear_backoff",
               base_delay |-> 3, max_delay |-> 15, timeout |-> 20]
         [] OTHER ->
              [max_retries |-> 2, strategy |-> "exponential_backoff",
               base_delay |-> 1, max_delay |-> 10, timeout |-> 30]]

\* get_retry_config: the action's policy, the default one for unknown actions.
get_retry_config(action) ==
    IF action \in DOMAIN retry_configs THEN retry_configs[action]
    ELSE retry_configs["default"]

calculate_delayMutant(attempt, strategy, base_delay, max_delay) ==
    LET delay == CASE strategy = "exponential_backoff" -> base_delay * Pow2(attempt + 1)
                   [] strategy = "linear_backoff" -> base_delay * (attempt + 1)
                   [] OTHER -> base_delay
    IN Min(delay, max_delay)

\* calculate_delay(attempt, strategy, base_delay, max_delay)
calculate_delay(attempt, strategy, base_delay, max_delay) ==
    LET delay == CASE strategy = "exponential_backoff" -> base_delay * Pow2(attempt)
                   [] strategy = "linear_backoff" -> base_delay * (attempt + 1)
                   [] OTHER -> base_delay
    IN Min(delay, max_delay)

\* What one invocation of the operation (under asyncio.wait_for) can end in:
\* a result, or an exception of one of the classes the handler tells apart.
Outcomes == {"ok", "TimeoutError", "ConnectionError", "ValueError", "Exception"}

\* The except clauses of execute_with_retry: exception class -> OCPPErrorType.
ErrorTypeOf(outcome) ==
    CASE outcome = "TimeoutError" -> "timeout_error"
      [] outcome = "ConnectionError" -> "communication_error"
      [] outcome = "ValueError" -> "validation_error"
      [] OTHER -> "internal_error"

\* `except ValueError: ... break`: the classes that leave the loop at once.
BreaksLoopMutant(outcome) == FALSE
BreaksLoop(outcome) == outcome = "ValueError"

\* `last_error = e` in each except clause; the call ends in
\* `raise last_error`.
LastErrorMutant(last_error, outcome) ==
    IF last_error = None THEN Some(outcome) ELSE last_error
LastError(last_error, outcome) == Some(outcome)

\* `for attempt in range(max_retries + 1)`: is there a next iteration?
HasNextAttempt(attempt, max_retries) == attempt < max_retries

\* key = f"{pile_id}:{action}"
StatKey(pile_id, action) == Tokens(pile_id) \o <<":">> \o Tokens(action)

StatKeys == {StatKey(p, a) : p \in Piles, a \in RetryActions}

EmptyStats == [success_count |-> 0, error_count |-> 0, total_attempts |-> 0,
               last_error_type |-> None, last_error_attempt |-> None,
               error_types |-> [t \in {"timeout_error", "communication_error",
                                       "validation_error", "internal_error"} |-> 0]]

StatsOf(stats, key) == IF key \in DOMAIN stats THEN stats[key] ELSE EmptyStats

Put(f, k, v) == [x \in (DOMAIN f) \cup {k} |-> IF x = k THEN v ELSE f[x]]

record_successMutant(stats, pile, action, attempts) ==
    LET s == StatsOf(stats, StatKey(pile, action))
    IN Put(stats, StatKey(pile, action),
           [s EXCEPT !.success_count = @ + 1,
                     !.total_attempts = @ + attempts])

\* _record_success(pile_id, action, attempts)
record_success(stats, pile, action, attempts) ==
    LET s == StatsOf(stats, StatKey(pile, action))
    IN Put(stats, StatKey(pile, action),
           [s EXCEPT !.success_count = @ + 1,
                     !.total_attempts = @ + attempts + 1])

record_errorMutant(stats, pile, action, error_type, attempt) ==
    LET s == StatsOf(stats, StatKey(pile, action))
    IN Put(stats, StatKey(pile, action),
           [s EXCEPT !.last_error_type = Some(error_type),
                     !.last_error_attempt = Some(attempt),
                     !.error_types[error_type] = @ + 1])

\* _record_error(pile_id, action, error_type, attempt)
record_error(stats, pile, action, error_type, attempt) ==
    LET s == StatsOf(stats, StatKey(pile, action))
    IN Put(stats, StatKey(pile, action),
           [s EXCEPT !.error_count = @ + 1,
                     !.last_error_type = Some(error_type),
                     !.last_error_attempt = Some(attempt),
                     !.error_types[error_type] = @ + 1])

RetryInit ==
    /\ rPc = "idle"
    /\ rAction = "RemoteStartTransaction"
    /\ rPile = "p1"
    /\ rAttempt = 0
    /\ rHistory = <<>>
    /\ rDelays = <<>>
    /\ rLastError = None
    /\ rRuns = 0
    /\ error_stats = <<>>

\* execute_with_retry is called: the policy is read and the loop entered.
Enter(action, pile) ==
    /\ rPc \in {"idle", "returned", "raised"}
    /\ rRuns < MaxRuns
    /\ rPc' = "call"
    /\ rAction' = action
    /\ rPile' = pile
    /\ rAttempt' = 0
    /\ rHistory' = <<>>
    /\ rDelays' = <<>>
    /\ rLastError' = None
    /\ rRuns' = rRuns + 1

RetryStart(action, pile) ==
    /\ Enter(action, pile)
    /\ UNCHANGED error_stats
    /\ UNCHANGED <<sessionVars, engineVars, poolVars, restVars>>

\* One iteration of the loop body: the operation is invoked under wait_for,
\* and its outcome handled up to the next suspension (the sleep) or the end.
\* stats is error_stats as the operation left it.
Iterate(stats, outcome) ==
    LET cfg == get_retry_config(rAction) IN
    /\ rPc = "call"
    /\ rHistory' = Append(rHistory, outcome)
    /\ rLastError' = IF outcome = "ok" THEN rLastError
                     ELSE LastError(rLastError, outcome)
    /\ IF outcome = "ok"
       THEN /\ error_stats' = record_success(stats, rPile, rAction, rAttempt)
            /\ rPc' = "returned"
            /\ UNCHANGED <<rAttempt, rDelays>>
       ELSE IF BreaksLoop(outcome)
       THEN /\ rPc' = "raised"
            /\ error_stats' = stats
            /\ UNCHANGED <<rAttempt, rDelays>>
       ELSE /\ error_stats' = record_error(stats, rPile, rAction,
                                           ErrorTypeOf(outcome), rAttempt)
            /\ IF HasNextAttempt(rAttempt, cfg.max_retries)
               THEN /\ rPc' = "sleep"
                    /\ rDelays' = Append(rDelays,
                                     calculate_delay(rAttempt, cfg.strategy,
                                                     cfg.base_delay, cfg.max_delay))
                    /\ UNCHANGED rAttempt
               ELSE /\ rPc' = "raised"
                    /\ UNCHANGED <<rAttempt, rDelays>>
    /\ UNCHANGED <<rAction, rPile, rRuns>>

RetryInvoke(outcome) ==
    /\ Iterate(error_stats, outcome)
    /\ UNCHANGED <<sessionVars, engineVars, poolVars, restVars>>

\* asyncio.sleep(delay) returns: the next iteration begins.
Wake ==
    /\ rPc = "sleep"
    /\ rPc' = "call"
    /\ rAttempt' = rAttempt + 1
    /\ UNCHANGED <<rAction, rPile, rHistory, rDelays, rLastError, rRuns, error_stats>>

RetryWake ==
    /\ Wake
    /\ UNCHANGED <<sessionVars, engineVars, poolVars, restVars>>

RetryNext ==
    \/ \E a \in RetryActions, p \in Piles : RetryStart(a, p)
    \/ \E o \in Outcomes : RetryInvoke(o)
    \/ RetryWake

(***************************************************************************)
(*                          SESSION MANAGER                                *)
(***************************************************************************)

SessionIds == {"s1", "s2", "s3"}

\* Bound on the number of meter values kept in one session's history.
MaxMeterValues == 2

\* ChargingSession.price_per_kwh = 1.5, kept as twice its value.
PricePerKwhTimes2 == 3

ActiveStatuses == {"Preparing", "Charging", "SuspendedEV", "SuspendedEVSE"}
SessionStatuses == ActiveStatuses \cup {"Finishing", "Completed", "Faulted", "Cancelled"}

\* The fields of the ChargingSession dataclass that have no default value:
\* the constructor raises TypeError unless every one of them is passed.
ChargingSessionRequired ==
    {"session_id", "pile_id", "connector_id", "user_id", "id_tag",
     "transaction_id", "start_time", "end_time", "meter_start", "meter_stop",
     "status", "stop_reason"}

\* The keyword arguments create_session and create_session_from_pile pass.
CreateSessionKwargs ==
    {"session_id", "pile_id", "connector_id", "user_id", "id_tag",
     "transaction_id", "start_time", "end_time", "meter_start", "meter_stop",
     "status"}

\* ChargingSession(**kwargs): does the generated __init__ accept the call?
ConstructorAccepts(kwargs) == ChargingSessionRequired \subseteq kwargs

\* datetime.fromisoformat(t.replace('Z', '+00:00')) on an optional string:
\* the exception it raises, if any.  "iso" stands for an ISO-8601 instant,
\* any other string for text that does not parse.
ParseTimeError(t) ==
    IF t = None THEN Some("AttributeError")
    ELSE IF Val(t) = "iso" THEN None
    ELSE Some("ValueError")

\* The manager's state as one value, so that its methods are operators.
Manager == [sessions |-> sessions,
            transaction_sessions |-> transaction_sessions,
            total_sessions |-> total_sessions,
            total_energy_delivered |-> total_energy_delivered]

\* What a method gives back: the new state, the exception it raised (if
\* any) and the id of the session it returned (if any).
Ret(m, exc, sid) == [m |-> m, exc |-> exc, ret |-> sid]

NewSession(pile, connector, user, tag, tx, start, meter_start, status) ==
    [pile_id |-> pile, connector_id |-> connector, user_id |-> user,
     id_tag |-> tag, transaction_id |-> tx, start_time |-> start,
     end_time |-> None, meter_start |-> meter_start, meter_stop |-> None,
     status |-> status, stop_reason |-> None,
     energy_delivered |-> 0, cost |-> 0,
     current_power |-> 0, voltage |-> 0, current |-> 0, temperature |-> 0,
     meter_values |-> <<>>]

\* create_session(pile_id, user_id, connector_id, id_tag, transaction_id):
\* sid is the id generate_session_id returns.  `if transaction_id:` skips
\* None and 0.  connector_id and id_tag are kept as optional values, since
\* create_session_from_pile stores whatever payload.get() gave it.
create_session(m, sid, pile, user, connector, tag, tx) ==
    IF ~ConstructorAccepts(CreateSessionKwargs)
    THEN Ret(m, Some("TypeError"), None)
    ELSE LET s == NewSession(pile, Some(connector), user, Some(tag), tx, "now", 0,
                             "Preparing")
         IN Ret([m EXCEPT
                   !.sessions = Put(@, sid, s),
                   !.transaction_sessions =
                       IF tx # None /\ Val(tx) # 0 THEN Put(@, Val(tx), sid) ELSE @,
                   !.total_sessions = @ + 1],
                None, Some(sid))

\* create_session_from_pile(pile_id, connector_id, id_tag, transaction_id,
\*                          meter_start, start_time)
create_session_from_pile(m, sid, pile, connector, tag, tx, meter_start, start_time) ==
    IF ParseTimeError(start_time) # None
    THEN Ret(m, ParseTimeError(start_time), None)
    ELSE IF ~ConstructorAccepts(CreateSessionKwargs)
    THEN Ret(m, Some("TypeError"), None)
    ELSE LET s == NewSession(pile, connector, None, tag, Some(tx), "iso",
                             meter_start, "Charging")
         IN Ret([m EXCEPT
                   !.sessions = Put(@, sid, s),
                   !.transaction_sessions = Put(@, tx, sid),
                   !.total_sessions = @ + 1],
                None, Some(sid))

\* get_session_by_transaction(transaction_id): the session id, if any.
get_session_by_transaction(m, tx) ==
    IF tx # None /\ Val(tx) \in DOMAIN m.transaction_sessions
       /\ m.transaction_sessions[Val(tx)] \in DOMAIN m.sessions
    THEN Some(m.transaction_sessions[Val(tx)])
    ELSE None

Get(o, default) == IF o = None THEN default ELSE Val(o)

\* The body of `for sampled_value in sampled_values` for one sample.
ApplySampleMutant(s, sv) ==
    IF Get(sv.measurand, "Energy.Active.Import.Register") = "Energy.Active.Import.Register"
    THEN [s EXCEPT !.energy_delivered = @ + Get(sv.value, 0)]
    ELSE s
ApplySample(s, sv) ==
    LET measurand == Get(sv.measurand, "Energy.Active.Import.Register")
        value == Get(sv.value, 0)
        unit == Get(sv.unit, "Wh")
    IN CASE measurand = "Energy.Active.Import.Register" ->
              IF unit = "kWh" THEN [s EXCEPT !.energy_delivered = value * 1000]
              ELSE IF unit = "Wh" THEN [s EXCEPT !.energy_delivered = value]
              ELSE s
         [] measurand = "Power.Active.Import" ->
              IF unit = "kW" THEN [s EXCEPT !.current_power = value * 1000]
              ELSE IF unit = "W" THEN [s EXCEPT !.current_power = value]
              ELSE s
         [] measurand = "Voltage" -> [s EXCEPT !.voltage = value * 1000]
         [] measurand = "Current.Import" -> [s EXCEPT !.current = value * 1000]
         [] measurand = "Temperature" -> [s EXCEPT !.temperature = value * 1000]
         [] OTHER -> s

\* A sampled value whose text is not a number: float() raises ValueError on
\* it.  Meter readings are not negative, so this number stands for it.
NotANumber == -1

\* float(sampled_value.get("value", 0)) raises ValueError.
FloatRaises(sv) == Get(sv.value, 0) = NotANumber

\* The samples of one meter value include one that float() raises on.
SamplesRaise(svs) == \E i \in 1..Len(svs) : FloatRaises(svs[i])

\* `for sampled_value in sampled_values`: the loop ends at the first sample
\* that float() raises on, with the earlier samples applied.
RECURSIVE ApplySamples(_, _)
ApplySamples(s, svs) ==
    IF svs = <<>> \/ FloatRaises(Head(svs)) THEN s
    ELSE ApplySamples(ApplySample(s, Head(svs)), Tail(svs))

\* The body of `for meter_value in meter_values` for one meter value: it is
\* appended, its samples are applied, and the cost is recomputed unless a
\* sample raised.
ApplyMeterValue(s, mv) ==
    LET a == [s EXCEPT !.meter_values = Append(@, mv)]
        b == ApplySamples(a, mv.sampledValue)
    IN IF SamplesRaise(mv.sampledValue) THEN b
       ELSE [b EXCEPT !.cost = b.energy_delivered * PricePerKwhTimes2]

RECURSIVE ApplyMeterValues(_, _)
ApplyMeterValues(s, mvs) ==
    IF mvs = <<>> THEN s
    ELSE IF SamplesRaise(Head(mvs).sampledValue) THEN ApplyMeterValue(s, Head(mvs))
    ELSE ApplyMeterValues(ApplyMeterValue(s, Head(mvs)), Tail(mvs))

\* update_meter_values(transaction_id, meter_values)
update_meter_values(m, tx, mvs) ==
    LET sid == get_session_by_transaction(m, tx) IN
    IF sid = None THEN Ret(m, None, None)
    ELSE Ret([m EXCEPT !.sessions[Val(sid)] = ApplyMeterValues(@, mvs)],
             IF \E i \in 1..Len(mvs) : SamplesRaise(mvs[i].sampledValue)
             THEN Some("ValueError") ELSE None,
             None)

\* update_session_status(session_id, status)
update_session_status(m, sid, status) ==
    IF sid \in DOMAIN m.sessions
    THEN Ret([m EXCEPT !.sessions[sid].status = status], None, None)
    ELSE Ret(m, None, None)

\* end_session(session_id, reason)
end_session(m, sid, reason) ==
    IF sid \notin DOMAIN m.sessions THEN Ret(m, None, None)
    ELSE LET s == m.sessions[sid]
             e == [s EXCEPT !.end_time = Some("now"),
                            !.status = "Completed",
                            !.stop_reason = Some(reason),
                            !.meter_stop = IF @ = None
                                           THEN Some(s.meter_start + s.energy_delivered)
                                           ELSE @]
         IN Ret([m EXCEPT !.sessions[sid] = e,
                          !.total_energy_delivered = @ + s.energy_delivered],
                None, Some(sid))

Remove(f, k) == [x \in (DOMAIN f) \ {k} |-> f[x]]

\* end_session_by_transaction(transaction_id, meter_stop, end_time, reason)
end_session_by_transaction(m, tx, meter_stop, end_time, reason) ==
    LET sid == get_session_by_transaction(m, tx) IN
    IF sid = None THEN Ret(m, None, None)
    ELSE IF ParseTimeError(end_time) # None THEN Ret(m, ParseTimeError(end_time), None)
    ELSE LET s == m.sessions[Val(sid)]
             energy == meter_stop - s.meter_start
             e == [s EXCEPT !.end_time = Some("iso"),
                            !.meter_stop = Some(meter_stop),
                            !.status = "Completed",
                            !.stop_reason = Some(reason),
                            !.energy_delivered = energy,
                            !.cost = energy * PricePerKwhTimes2]
         IN Ret([m EXCEPT !.sessions[Val(sid)] = e,
                          !.total_energy_delivered = @ + energy,
                          !.transaction_sessions = Remove(@, Val(tx))],
                None, sid)

(***************************************************************************)
(*                            PILE REGISTRY                                *)
(***************************************************************************)

ConnectorStatuses == {"Available", "Preparing", "Charging", "SuspendedEV",
                      "SuspendedEVSE", "Finishing", "Reserved", "Unavailable",
                      "Faulted"}

\* ChargingPile(pile_id, ...) with the dataclass defaults and __post_init__.
NewPile ==
    [is_online |-> FALSE, status |-> "Unavailable",
     connectors |-> (1 :> [status |-> "Unavailable", error_code |-> "NoError"]),
     charge_point_vendor |-> None, charge_point_model |-> None,
     charge_point_serial_number |-> None, firmware_version |-> None,
     last_heartbeat |-> None, last_boot_time |-> None]

\* register_pile(pile_id, websocket)
register_pile(ps, p) ==
    LET pile == IF p \in DOMAIN ps THEN ps[p] ELSE NewPile
    IN Put(ps, p, [pile EXCEPT
                     !.is_online = TRUE,
                     !.last_heartbeat = Some("now"),
                     !.status = "Available",
                     !.connectors = [c \in DOMAIN @ |->
                                        [@[c] EXCEPT !.status = "Available"]]])

\* unregister_pile(pile_id)
unregister_pile(ps, p) ==
    IF p \notin DOMAIN ps THEN ps
    ELSE [ps EXCEPT ![p] = [@ EXCEPT
                     !.is_online = FALSE,
                     !.status = "Unavailable",
                     !.connectors = [c \in DOMAIN @ |->
                                        [@[c] EXCEPT !.status = "Unavailable"]]]]

\* update_pile_info(pile_id, info), info carrying the five keys
\* handle_boot_notification passes.
update_pile_info(ps, p, vendor, model, serial, firmware) ==
    IF p \notin DOMAIN ps THEN ps
    ELSE [ps EXCEPT ![p] = [@ EXCEPT
                     !.charge_point_vendor = vendor,
                     !.charge_point_model = model,
                     !.charge_point_serial_number = serial,
                     !.firmware_version = firmware,
                     !.last_boot_time = Some("now")]]

\* update_pile_status(pile_id): the pile's status from its connectors'.
PileStatusOf(pile) ==
    LET st == {pile.connectors[c].status : c \in DOMAIN pile.connectors} IN
    IF ~pile.is_online THEN "Unavailable"
    ELSE IF "Faulted" \in st THEN "Faulted"
    ELSE IF "Charging" \in st THEN "Charging"
    ELSE IF "SuspendedEV" \in st THEN "SuspendedEV"
    ELSE IF "SuspendedEVSE" \in st THEN "SuspendedEVSE"
    ELSE IF "Preparing" \in st THEN "Preparing"
    ELSE IF "Finishing" \in st THEN "Finishing"
    ELSE IF "Reserved" \in st THEN "Reserved"
    ELSE IF st \subseteq {"Available"} THEN "Available"
    ELSE "Unavailable"

\* update_connector_status(pile_id, connector_id, status, error_code): the
\* new registry and the exception raised (ConnectorStatus(status) raises
\* ValueError for a value that is no member of the enum).
update_connector_status(ps, p, connector_id, status, error_code) ==
    IF p \notin DOMAIN ps THEN [piles |-> ps, exc |-> None]
    ELSE IF status = None \/ Val(status) \notin ConnectorStatuses
    THEN [piles |-> ps, exc |-> Some("ValueError")]
    ELSE LET c == [status |-> Val(status), error_code |-> error_code]
             withC == [ps[p] EXCEPT !.connectors = Put(@, connector_id, c)]
         IN [piles |-> [ps EXCEPT ![p] = [withC EXCEPT !.status = PileStatusOf(withC)]],
             exc |-> None]

\* update_last_heartbeat(pile_id)
update_last_heartbeat(ps, p) ==
    IF p \in DOMAIN ps THEN [ps EXCEPT ![p].last_heartbeat = Some("now")] ELSE ps

(***************************************************************************)
(*                          PROTOCOL ENGINE                                *)
(***************************************************************************)

\* generate_transaction_id: `int(now * 1000) % 2147483647`.
TxIdModulus == 2147483647

\* A JSON object used as a payload: a function from the keys it has to
\* their values.  NoPayload is the empty object; PGet is payload.get(key).
NoPayload == <<>>
PGet(payload, key) == IF key \in DOMAIN payload THEN Some(payload[key]) ELSE None

\* JSON values as they arrive from json.loads: t is the Python type.
JInt(i) == [t |-> "int", i |-> i]
JStr(s) == [t |-> "str", s |-> s]
JDict(p) == [t |-> "dict", p |-> p]
JList == [t |-> "list"]
JNull == [t |-> "null"]

\* A received message: a JSON array (shape "list"), or another JSON value;
\* items are its elements (the keys of an object, the characters of a
\* string), so that len(message) is Len(items).
Message(shape, items) == [shape |-> shape, items |-> items]

\* The strings s for which s.strip() is empty.
Blank == {"", " "}

\* bool(v), as in `if message_id`.
Truthy(v) ==
    CASE v.t = "str" -> v.s # ""
      [] v.t = "int" -> v.i # 0
      [] v.t = "dict" -> v.p # NoPayload
      [] OTHER -> FALSE

\* str(v)
PyStr(v) ==
    CASE v.t = "str" -> v
      [] v.t = "int" -> JStr(ToString(v.i))
      [] v.t = "null" -> JStr("None")
      [] OTHER -> JStr("repr")

\* The result object of a CALLRESULT: status is `status` or
\* `idTagInfo.status`; null marks a handler that returned None.
Result(status, tx) == [status |-> status, transactionId |-> tx, null |-> FALSE]
NoResult == Result(None, None)
NullResult == [status |-> None, transactionId |-> None, null |-> TRUE]

\* What handle_message gives back: a frame, None, or an exception.  The
\* text str(e) of an exception is stood for by the exception's class.
create_call_result(message_id, result) ==
    [kind |-> "CALLRESULT", mid |-> message_id, code |-> "", description |-> "",
     result |-> result]
create_call_error(message_id, error_code, error_description) ==
    [kind |-> "CALLERROR", mid |-> message_id, code |-> error_code,
     description |-> error_description, result |-> NoResult]
ReturnsNone == [kind |-> "None", mid |-> JNull, code |-> "", description |-> "",
                result |-> NoResult]
Raises(exc) == [kind |-> "raised", mid |-> JNull, code |-> exc, description |-> "",
                result |-> NoResult]

\* The state the engine works on, as one value: the session manager, the
\* pile registry, the pending-request table and the allocated ids.
Engine == [m |-> Manager, piles |-> piles, pending |-> pending_requests,
           tx |-> txAllocated]

\* What a handler gives back: the new state, the exception raised (if any)
\* and the result object.
HRet(e, exc, result) == [e |-> e, exc |-> exc, result |-> result]

\* handle_boot_notification
handle_boot_notification(e, pile_id, payload) ==
    HRet([e EXCEPT !.piles = update_pile_info(@, pile_id,
                                 PGet(payload, "chargePointVendor"), PGet(payload, "chargePointModel"),
                                 PGet(payload, "chargePointSerialNumber"),
                                 PGet(payload, "firmwareVersion"))],
         None, Result(Some("Accepted"), None))

\* handle_status_notification
handle_status_notification(e, pile_id, payload) ==
    LET r == update_connector_status(e.piles, pile_id, Get(PGet(payload, "connectorId"), 0),
                                     PGet(payload, "status"), Get(PGet(payload, "errorCode"), "NoError"))
    IN HRet([e EXCEPT !.piles = r.piles], r.exc, NoResult)

\* authorize_user is the call to the user-management system, which the
\* service does not implement: the method as shipped answers True for every
\* tag.  RejectedTags are the tags that system turns down.
RejectedTags == {"blocked"}

authorize_user(id_tag) == id_tag \cap RejectedTags = {}

\* generate_transaction_id at wall-clock time now (milliseconds).
generate_transaction_id(now) == now % TxIdModulus

handle_start_transactionMutant(e, pile_id, payload, now, sid) ==
    LET transaction_id == generate_transaction_id(now)
        r == create_session_from_pile(e.m, sid, pile_id, PGet(payload, "connectorId"),
                                      PGet(payload, "idTag"), transaction_id,
                                      Get(PGet(payload, "meterStart"), 0) * 1000,
                                      PGet(payload, "timestamp"))
    IN HRet([e EXCEPT !.m = r.m, !.tx = Append(@, transaction_id)],
            r.exc,
            Result(Some(IF authorize_user(PGet(payload, "idTag"))
                        THEN "Accepted" ELSE "Invalid"), None))

\* handle_start_transaction; sid is the id generate_session_id returns.
handle_start_transaction(e, pile_id, payload, now, sid) ==
    IF ~authorize_user(PGet(payload, "idTag"))
    THEN HRet(e, None, Result(Some("Invalid"), None))
    ELSE LET transaction_id == generate_transaction_id(now)
             r == create_session_from_pile(e.m, sid, pile_id, PGet(payload, "connectorId"),
                                           PGet(payload, "idTag"), transaction_id,
                                           Get(PGet(payload, "meterStart"), 0) * 1000,
                                           PGet(payload, "timestamp"))
         IN HRet([e EXCEPT !.m = r.m, !.tx = Append(@, transaction_id)],
                 r.exc, Result(Some("Accepted"), Some(transaction_id)))

\* handle_stop_transaction
handle_stop_transaction(e, pile_id, payload) ==
    LET r == end_session_by_transaction(e.m, PGet(payload, "transactionId"),
                                        Get(PGet(payload, "meterStop"), 0) * 1000,
                                        PGet(payload, "timestamp"),
                                        Get(PGet(payload, "reason"), "Local"))
    IN HRet([e EXCEPT !.m = r.m], r.exc,
            Result(Some(IF r.ret # None THEN "Accepted" ELSE "Invalid"), None))

\* handle_heartbeat
handle_heartbeat(e, pile_id, payload) ==
    HRet([e EXCEPT !.piles = update_last_heartbeat(@, pile_id)], None, NoResult)

\* handle_meter_values
handle_meter_values(e, pile_id, payload) ==
    LET r == update_meter_values(e.m, PGet(payload, "transactionId"),
                                 Get(PGet(payload, "meterValue"), <<>>))
    IN HRet([e EXCEPT !.m = r.m], r.exc, NoResult)

\* handle_authorize
handle_authorize(e, pile_id, payload) ==
    HRet(e, None,
         Result(Some(IF authorize_user(PGet(payload, "idTag")) THEN "Accepted" ELSE "Invalid"),
                None))

\* handle_remote_start_response, handle_remote_stop_response,
\* handle_reset_response, handle_unlock_response: they log and return None.
handle_response(e, pile_id, payload) == HRet(e, None, NullResult)


\* OCPPService.message_handlers: the keys of the dispatch table.
PileActions == {"BootNotification", "StatusNotification", "StartTransaction",
                "StopTransaction", "Heartbeat", "MeterValues", "Authorize"}
ResponseActions == {"RemoteStartTransactionResponse", "RemoteStopTransactionResponse",
                    "ResetResponse", "UnlockConnectorResponse"}
message_handlers == PileActions \cup ResponseActions

\* self.message_handlers[action](pile_id, payload)
Dispatch(e, pile_id, action, payload, now, sid) ==
    CASE action = "BootNotification" -> handle_boot_notification(e, pile_id, payload)
      [] action = "StatusNotification" -> handle_status_notification(e, pile_id, payload)
      [] action = "StartTransaction" ->
             handle_start_transaction(e, pile_id, payload, now, sid)
      [] action = "StopTransaction" -> handle_stop_transaction(e, pile_id, payload)
      [] action = "Heartbeat" -> handle_heartbeat(e, pile_id, payload)
      [] action = "MeterValues" -> handle_meter_values(e, pile_id, payload)
      [] action = "Authorize" -> handle_authorize(e, pile_id, payload)
      [] OTHER -> handle_response(e, pile_id, payload)

\* What handle_message and its callees give back: the new state and the
\* response.
MRet(e, resp) == [e |-> e, resp |-> resp]

handle_callMutant(e, pile_id, message_id, action, payload, now, sid) ==
    IF action \in message_handlers
    THEN LET h == Dispatch(e, pile_id, action, payload, now, sid) IN
         IF h.exc = None
         THEN MRet(h.e, create_call_result(message_id, h.result))
         ELSE MRet(h.e, Raises(Val(h.exc)))
    ELSE MRet(e, create_call_error(message_id, "NotSupported",
                                   "Action not supported"))

\* handle_call(pile_id, message_id, action, payload)
handle_call(e, pile_id, message_id, action, payload, now, sid) ==
    IF action \in message_handlers
    THEN LET h == Dispatch(e, pile_id, action, payload, now, sid) IN
         IF h.exc = None
         THEN MRet(h.e, create_call_result(message_id, h.result))
         ELSE MRet(h.e, create_call_error(message_id, "InternalError", Val(h.exc)))
    ELSE MRet(e, create_call_error(message_id, "NotSupported",
                                   "Action not supported"))

\* handle_call_result(pile_id, message_id, payload): the pending request is
\* popped.  A response handler is looked up only when the request's action
\* is itself a key of message_handlers, under the key action + "Response",
\* which is then no key of the table: the KeyError is turned into a
\* FormatViolation by handle_message.  The actions the engine records
\* ("RemoteStartTransaction", ...) are no keys, so nothing more happens.
handle_call_result(e, pile_id, message_id, payload) ==
    IF message_id \in DOMAIN e.pending
    THEN LET action == e.pending[message_id].action
             popped == [e EXCEPT !.pending = Remove(@, message_id)]
         IN IF action \in message_handlers
            THEN MRet(popped, create_call_error(JStr(message_id), "FormatViolation",
                                                "Missing required field"))
            ELSE MRet(popped, ReturnsNone)
    ELSE MRet(e, ReturnsNone)

\* handle_call_error(pile_id, message_id, error_code, description, details)
handle_call_error(e, pile_id, message_id) ==
    IF message_id \in DOMAIN e.pending
    THEN MRet([e EXCEPT !.pending = Remove(@, message_id)], ReturnsNone)
    ELSE MRet(e, ReturnsNone)

\* The key a message id is looked up under in pending_requests; a value
\* that is no string is a key of no entry.
PendingKey(v) == IF v.t = "str" THEN v.s ELSE ""

\* `isinstance(message_id, str) and message_id.strip()`
ValidMessageIdMutant(v) == TRUE
ValidMessageId(v) == v.t = "str" /\ v.s \notin Blank

\* `isinstance(message_type, int) and message_type in [2, 3, 4]`
ValidMessageType(v) == v.t = "int" /\ v.i \in {2, 3, 4}

\* `isinstance(action, str) and action.strip()`
ValidAction(v) == v.t = "str" /\ v.s \notin Blank

\* handle_message(pile_id, message) at wall-clock time now.
handle_message(e, pile_id, message, now, sid) ==
    LET n == Len(message.items) IN
    IF message.shape \in {"int", "null"}
    THEN \* len(message) raises TypeError; the except clause evaluates
         \* len(message) again and the TypeError leaves handle_message.
         MRet(e, Raises("TypeError"))
    ELSE IF message.shape # "list" \/ n < 3
    THEN IF n > 1
         THEN IF message.shape = "dict"
              THEN \* message[1] raises KeyError, in the try block and again
                   \* in the except clause.
                   MRet(e, Raises("KeyError"))
              ELSE MRet(e, create_call_error(message.items[2], "FormatViolation",
                                             "Invalid message format"))
         ELSE MRet(e, create_call_error(JStr("unknown"), "FormatViolation",
                                        "Invalid message format"))
    ELSE LET message_type == message.items[1]
             message_id == message.items[2]
         IN
         IF ~ValidMessageId(message_id)
         THEN MRet(e, create_call_error(IF Truthy(message_id) THEN PyStr(message_id)
                                        ELSE JStr("unknown"),
                                        "FormatViolation", "Invalid message ID"))
         ELSE IF ~ValidMessageType(message_type)
         THEN MRet(e, create_call_error(message_id, "MessageTypeNotSupported",
                                        "Invalid message type"))
         ELSE IF message_type.i = 2
         THEN IF n # 4
              THEN MRet(e, create_call_error(message_id, "FormatViolation",
                                             "Invalid CALL message format"))
              ELSE IF ~ValidAction(message.items[3])
              THEN MRet(e, create_call_error(message_id, "FormatViolation",
                                             "Invalid action"))
              ELSE IF message.items[4].t # "dict"
              THEN MRet(e, create_call_error(message_id, "FormatViolation",
                                             "Invalid payload format"))
              ELSE handle_call(e, pile_id, message_id, message.items[3].s,
                               message.items[4].p, now, sid)
         ELSE IF message_type.i = 3
         THEN IF n # 3 \/ message.items[3].t # "dict"
              THEN MRet(e, ReturnsNone)
              ELSE handle_call_result(e, pile_id, PendingKey(message_id), message.items[3].p)
         ELSE IF n # 5 \/ message.items[3].t # "str" \/ message.items[4].t # "str"
                        \/ message.items[5].t # "dict"
              THEN MRet(e, ReturnsNone)
              ELSE handle_call_error(e, pile_id, PendingKey(message_id))


(***************************************************************************)
(* Inputs of the engine: the frames a pile sends.                          *)
(***************************************************************************)

List(items) == Message("list", items)
Call(message_id, action, payload) ==
    List(<<JInt(2), message_id, action, payload>>)

EnergyRegister == "Energy.Active.Import.Register"

SampledValue(measurand, value, unit) ==
    [measurand |-> Some(measurand), value |-> Some(value), unit |-> Some(unit)]
MeterValueOf(samples) == [timestamp |-> Some("iso"), sampledValue |-> samples]

\* The meter values piles report: cumulative energy in Wh or in kWh, the
\* latter together with a power reading.
MeterValueInputs ==
    {MeterValueOf(<<SampledValue(EnergyRegister, 500, "Wh")>>),
     MeterValueOf(<<SampledValue(EnergyRegister, 2, "kWh"),
                    SampledValue("Power.Active.Import", 7, "kW")>>)}

\* A meter value whose second sample carries text that is not a number.
MalformedMeterValue ==
    MeterValueOf(<<SampledValue(EnergyRegister, 3, "kWh"),
                   SampledValue(EnergyRegister, NotANumber, "Wh")>>)

BootPayload == [chargePointVendor |-> "v", chargePointModel |-> "m"]
BootPayloadNoModel == [chargePointVendor |-> "v"]
StatusPayload(status) == [connectorId |-> 1, status |-> status, errorCode |-> "NoError"]
StartPayload(timestamp) == [connectorId |-> 1, idTag |-> "u", meterStart |-> 0,
                            timestamp |-> timestamp]
StartPayloadNoTime == [connectorId |-> 1, idTag |-> "u", meterStart |-> 0]
StartPayloadRejected == [connectorId |-> 1, idTag |-> "blocked", meterStart |-> 0,
                         timestamp |-> "iso"]
StopPayload(tx, timestamp) == [transactionId |-> tx, meterStop |-> 3,
                               timestamp |-> timestamp]
MeterPayload(tx, mv) == [connectorId |-> 1, transactionId |-> tx, meterValue |-> <<mv>>]
AuthorizePayload == [idTag |-> "u"]

\* CALL frames of pile actions whose payload carries the required fields
\* with well-formed values.
GoodCalls ==
    {Call(JStr("m1"), JStr("BootNotification"), JDict(BootPayload)),
     Call(JStr("m1"), JStr("StatusNotification"), JDict(StatusPayload("Charging"))),
     Call(JStr("m1"), JStr("StartTransaction"), JDict(StartPayload("iso"))),
     Call(JStr("m1"), JStr("StopTransaction"), JDict(StopPayload(1, "iso"))),
     Call(JStr("m1"), JStr("StopTransaction"), JDict(StopPayload(2, "iso"))),
     Call(JStr("m1"), JStr("Heartbeat"), JDict(NoPayload)),
     Call(JStr("m1"), JStr("Authorize"), JDict(AuthorizePayload)),
     Call(JStr("m1"), JStr("MeterValues"),
          JDict(MeterPayload(1, MeterValueOf(<<SampledValue(EnergyRegister, 500, "Wh")>>))))}

\* CALL frames that pass the structural checks but name an unknown action,
\* lack a required field or carry values a handler rejects.
OddCalls ==
    {Call(JStr("m1"), JStr("DataTransfer"), JDict(NoPayload)),
     Call(JStr("m1"), JStr("ResetResponse"), JDict(NoPayload)),
     Call(JStr("m1"), JStr("StatusNotification"), JDict(StatusPayload("Bogus"))),
     Call(JStr("m1"), JStr("BootNotification"), JDict(BootPayloadNoModel)),
     Call(JStr("m1"), JStr("StartTransaction"), JDict(StartPayloadNoTime)),
     Call(JStr("m1"), JStr("StartTransaction"), JDict(StartPayloadRejected)),
     Call(JStr("m1"), JStr("StopTransaction"), JDict(StopPayload(1, "bad")))}

\* CALLRESULT and CALLERROR frames, well-formed and not.
ReplyFrames ==
    {List(<<JInt(3), JStr("r1"), JDict(NoPayload)>>),
     List(<<JInt(3), JStr("r1"), JDict(NoPayload), JInt(1)>>),
     List(<<JInt(3), JStr("r1"), JStr("x")>>),
     List(<<JInt(4), JStr("r1"), JStr("GenericError"), JStr("d"), JDict(NoPayload)>>),
     List(<<JInt(4), JStr("r1"), JInt(5), JStr("d"), JDict(NoPayload)>>)}

\* Frames that fail a structural check.  Where the frame is long enough it
\* carries a StopTransaction for transaction 1 or answers request r1, so
\* that handling it as if it were well-formed would change the state.
BadFrames ==
    {Message("int", <<>>),
     Message("dict", <<JStr("a")>>), Message("dict", <<JStr("a"), JStr("b")>>),
     Message("str", <<JStr("a"), JStr("b")>>),
     List(<<JStr("invalid")>>),
     List(<<JInt(2), JStr("m1")>>),
     List(<<JInt(2), JStr("m1"), JStr("Heartbeat")>>),
     List(<<JInt(2), JStr("m1"), JStr("StopTransaction"),
            JDict(StopPayload(1, "iso")), JDict(NoPayload)>>),
     Call(JStr("m1"), JStr(""), JDict(StopPayload(1, "iso"))),
     Call(JStr("m1"), JStr("StopTransaction"), JList),
     List(<<JInt(3), JStr(""), JDict(NoPayload)>>),
     List(<<JInt(9), JStr("r1"), JDict(NoPayload)>>)}
    \cup {Call(mid, JStr("StopTransaction"), JDict(StopPayload(1, "iso"))) :
             mid \in {JStr(""), JStr(" "), JInt(5)}}
    \cup {List(<<ty, JStr("m1"), JStr("StopTransaction"),
                 JDict(StopPayload(1, "iso"))>>) : ty \in {JInt(9), JStr("2")}}

Frames == GoodCalls \cup OddCalls \cup ReplyFrames \cup BadFrames


(***************************************************************************)
(* The engine's steps.                                                     *)
(***************************************************************************)

\* Bounds: the wall clock runs from 1 to MaxClock milliseconds, and at most
\* MaxStarts transaction ids are allocated in one behaviour.
MaxClock == 4
MaxStarts == 2

\* The message ids uuid4 gives to outgoing requests.
RequestIds == {"r1"}

\* The piles whose messages the engine is followed on.
EnginePiles == {"p1"}

NoMessage == Message("none", <<>>)
Request(op, pile_id, message) == [op |-> op, pile |-> pile_id, message |-> message]

Returns == [kind |-> "returned", mid |-> JNull, code |-> "", description |-> "",
            result |-> NoResult]

\* The state of the engine and of the objects it works on is replaced.
SetEngine(e) ==
    /\ sessions' = e.m.sessions
    /\ transaction_sessions' = e.m.transaction_sessions
    /\ total_sessions' = e.m.total_sessions
    /\ total_energy_delivered' = e.m.total_energy_delivered
    /\ piles' = e.piles
    /\ pending_requests' = e.pending
    /\ txAllocated' = e.tx

MeterHistoryBounded(m) ==
    \A sid \in DOMAIN m.sessions : Len(m.sessions[sid].meter_values) <= MaxMeterValues

\* A pile's message arrives and handle_message runs on it.
HandleMessage(pile_id, message) ==
    /\ SessionIds \ DOMAIN sessions # {}
    /\ LET sid == CHOOSE s \in SessionIds \ DOMAIN sessions : TRUE
           r == handle_message(Engine, pile_id, message, clock, sid)
       IN /\ Len(r.e.tx) <= MaxStarts
          /\ MeterHistoryBounded(r.e.m)
          /\ SetEngine(r.e)
          /\ response' = r.resp
    /\ request' = Request("handle_message", pile_id, message)
    /\ UNCHANGED <<clock, retryVars, poolVars, restVars>>

\* One run of the thunk of remote_start_transaction (_execute_remote_start):
\* the payload is validated, the request recorded as pending and handed to
\* the connection manager, whose send_message raises when the pile cannot
\* be reached (delivered = FALSE).
ExecuteRemoteStart(pile_id, connector_id, delivered) ==
    /\ RequestIds \ DOMAIN pending_requests # {}
    /\ LET message_id == CHOOSE r \in RequestIds \ DOMAIN pending_requests : TRUE IN
       IF connector_id < 0
       THEN /\ response' = Raises("ValueError")
            /\ UNCHANGED pending_requests
       ELSE /\ pending_requests' =
                   Put(pending_requests, message_id,
                       [action |-> "RemoteStartTransaction", pile_id |-> pile_id])
            /\ response' = IF delivered THEN Returns ELSE Raises("Exception")
    /\ request' = Request("remote_start_transaction", pile_id, NoMessage)
    /\ UNCHANGED <<sessionVars, piles, clock, txAllocated, retryVars, poolVars, restVars>>

\* A pile's websocket connects: register_pile.
RegisterPile(pile_id) ==
    /\ piles' = register_pile(piles, pile_id)
    /\ request' = Request("register_pile", pile_id, NoMessage)
    /\ response' = Returns
    /\ UNCHANGED <<sessionVars, pending_requests, clock, txAllocated, retryVars, poolVars, restVars>>

\* A pile's websocket closes: unregister_pile.
UnregisterPile(pile_id) ==
    /\ piles' = unregister_pile(piles, pile_id)
    /\ request' = Request("unregister_pile", pile_id, NoMessage)
    /\ response' = Returns
    /\ UNCHANGED <<sessionVars, pending_requests, clock, txAllocated, retryVars, poolVars, restVars>>

\* A millisecond passes.
Tick ==
    /\ clock < MaxClock
    /\ clock' = clock + 1
    /\ UNCHANGED <<sessionVars, piles, pending_requests, txAllocated, request,
                   response, retryVars, poolVars, restVars>>

EngineNext ==
    \/ \E p \in EnginePiles, f \in Frames : HandleMessage(p, f)
    \/ \E p \in EnginePiles, c \in {-1, 1}, d \in BOOLEAN : ExecuteRemoteStart(p, c, d)
    \/ \E p \in EnginePiles : RegisterPile(p)
    \/ \E p \in EnginePiles : UnregisterPile(p)

\* StartTransaction frames while the clock runs.
StartFrames ==
    {Call(JStr("m1"), JStr("StartTransaction"), JDict(StartPayload("iso"))),
     Call(JStr("m2"), JStr("StartTransaction"), JDict(StartPayloadNoTime))}

TxNext ==
    \/ \E p \in EnginePiles, f \in StartFrames : HandleMessage(p, f)
    \/ Tick

\* The piles connected at /ws/pile/{pile_id} whose frames about running
\* transactions are followed, and those frames: the transaction id is
\* whatever the pile has put into the payload.
FramePiles == {"p1", "p2"}

TransactionFrames ==
    {Call(JStr("m1"), JStr("StopTransaction"), JDict(StopPayload(tx, "iso"))) :
        tx \in {1, 2}}
    \cup {Call(JStr("m1"), JStr("MeterValues"), JDict(MeterPayload(tx, mv))) :
            tx \in {1, 2}, mv \in MeterValueInputs}

FrameNext == \E p \in FramePiles, f \in TransactionFrames : HandleMessage(p, f)

(***************************************************************************)
(* The stores a session manager is started from.  No run of the code adds  *)
(* a session (see ConstructorAccepts), so the behaviours start from the    *)
(* empty store and from stores as create_session_from_pile and             *)
(* end_session_by_transaction are written to leave them: a session         *)
(* charging on (p1, 1) under transaction 1, next to an earlier, completed  *)
(* session of the same connector whose transaction 2 was released.         *)
(***************************************************************************)
ChargingS1 == NewSession("p1", Some(1), None, Some("u"), Some(1), "iso", 0, "Charging")

CompletedS2 ==
    [NewSession("p1", Some(1), None, Some("u"), Some(2), "iso", 0, "Charging")
       EXCEPT !.status = "Completed", !.end_time = Some("iso"),
              !.meter_stop = Some(1000), !.stop_reason = Some("Local"),
              !.energy_delivered = 1000, !.cost = 1000 * PricePerKwhTimes2]

EmptyStore == [sessions |-> <<>>, transaction_sessions |-> <<>>,
               total_sessions |-> 0, total_energy_delivered |-> 0]

InputStores ==
    {EmptyStore,
     [sessions |-> ("s1" :> ChargingS1) @@ ("s2" :> CompletedS2),
      transaction_sessions |-> (1 :> "s1"),
      total_sessions |-> 2, total_energy_delivered |-> 1000]}

SessionInit ==
    \E store \in InputStores :
       /\ sessions = store.sessions
       /\ transaction_sessions = store.transaction_sessions
       /\ total_sessions = store.total_sessions
       /\ total_energy_delivered = store.total_energy_delivered

EngineInit ==
    /\ piles = <<>>
    /\ pending_requests = <<>>
    /\ clock = 1
    /\ txAllocated = <<>>
    /\ request = Request("none", "p1", NoMessage)
    /\ response = [kind |-> "init", mid |-> JNull, code |-> "", description |-> "",
                   result |-> NoResult]

(***************************************************************************)
(* The session manager's own interface, called directly (the REST          *)
(* endpoints of main.py and the manager's public methods).                 *)
(***************************************************************************)

\* Bound on the total of delivered energy (thousandths of a kWh) up to
\* which sessions are still ended.
MaxTotalEnergy == 4000

\* The statuses update_session_status is called with.
StatusInputs == {"Charging", "Completed"}

Invocation(op, args) == [op |-> op, args |-> args]
Outcome(r) == [kind |-> IF r.exc = None THEN "returned" ELSE "raised",
               code |-> Get(r.exc, ""), ret |-> r.ret]

\* The manager's state is replaced by that of a method's return.
SetManager(r) ==
    /\ sessions' = r.m.sessions
    /\ transaction_sessions' = r.m.transaction_sessions
    /\ total_sessions' = r.m.total_sessions
    /\ total_energy_delivered' = r.m.total_energy_delivered
    /\ response' = Outcome(r)

CreateSession(pile_id, user_id, connector_id, id_tag, transaction_id) ==
    /\ SessionIds \ DOMAIN sessions # {}
    /\ LET sid == CHOOSE s \in SessionIds \ DOMAIN sessions : TRUE IN
       SetManager(create_session(Manager, sid, pile_id, user_id, connector_id,
                                 id_tag, transaction_id))
    /\ request' = Invocation("create_session",
                             [pile_id |-> pile_id, connector_id |-> connector_id,
                              transaction_id |-> transaction_id])
    /\ UNCHANGED <<piles, pending_requests, clock, txAllocated, retryVars, poolVars, restVars>>

CreateSessionFromPile(pile_id, connector_id, id_tag, transaction_id, start_time) ==
    /\ SessionIds \ DOMAIN sessions # {}
    /\ LET sid == CHOOSE s \in SessionIds \ DOMAIN sessions : TRUE IN
       SetManager(create_session_from_pile(Manager, sid, pile_id, Some(connector_id),
                                           Some(id_tag), transaction_id, 0,
                                           start_time))
    /\ request' = Invocation("create_session_from_pile",
                             [pile_id |-> pile_id, connector_id |-> connector_id,
                              transaction_id |-> Some(transaction_id)])
    /\ UNCHANGED <<piles, pending_requests, clock, txAllocated, retryVars, poolVars, restVars>>

UpdateMeterValues(transaction_id, meter_values) ==
    LET r == update_meter_values(Manager, Some(transaction_id), meter_values) IN
    /\ MeterHistoryBounded(r.m)
    /\ SetManager(r)
    /\ request' = Invocation("update_meter_values",
                             [transaction_id |-> transaction_id,
                              meter_values |-> meter_values])
    /\ UNCHANGED <<piles, pending_requests, clock, txAllocated, retryVars, poolVars, restVars>>

UpdateSessionStatus(session_id, status) ==
    /\ SetManager(update_session_status(Manager, session_id, status))
    /\ request' = Invocation("update_session_status",
                             [session_id |-> session_id, status |-> status])
    /\ UNCHANGED <<piles, pending_requests, clock, txAllocated, retryVars, poolVars, restVars>>

EndSession(session_id, reason) ==
    /\ total_energy_delivered <= MaxTotalEnergy
    /\ SetManager(end_session(Manager, session_id, reason))
    /\ request' = Invocation("end_session", [session_id |-> session_id])
    /\ UNCHANGED <<piles, pending_requests, clock, txAllocated, retryVars, poolVars, restVars>>

EndSessionByTransaction(transaction_id, meter_stop, end_time, reason) ==
    /\ total_energy_delivered <= MaxTotalEnergy
    /\ SetManager(end_session_by_transaction(Manager, Some(transaction_id),
                                             meter_stop, end_time, reason))
    /\ request' = Invocation("end_session_by_transaction",
                             [transaction_id |-> transaction_id,
                              end_time |-> end_time])
    /\ UNCHANGED <<piles, pending_requests, clock, txAllocated, retryVars, poolVars, restVars>>

SessionNext ==
    \/ \E tx \in {None, Some(3)} : CreateSession("p1", Some("u1"), 1, "u", tx)
    \/ \E t \in {Some("iso"), Some("bad")} : CreateSessionFromPile("p1", 1, "u", 3, t)
    \/ \E tx \in {1, 2}, mv \in MeterValueInputs \cup {MalformedMeterValue} :
          UpdateMeterValues(tx, <<mv>>)
    \/ \E sid \in SessionIds, st \in StatusInputs : UpdateSessionStatus(sid, st)
    \/ \E sid \in SessionIds : EndSession(sid, "Local")
    \/ \E tx \in {1, 2}, t \in {Some("iso"), Some("bad")} :
          EndSessionByTransaction(tx, 3000, t, "Remote")

(***************************************************************************)
(*                          CONNECTION POOL                                *)
(***************************************************************************)
\* The pool's coroutines run on one event loop: between two awaits that
\* suspend, a call runs without interruption.  The awaits that suspend are
\* those of EnhancedConnection.disconnect: the wait for the cancelled
\* background tasks and websocket.close().  An EnhancedConnection is an
\* object: the pool's dictionary and the suspended calls hold references to
\* it (its index in `objects`), and an object dropped from the dictionary
\* stays alive for the calls that still refer to it.

PoolPiles == {"p1"}

\* ConnectionConfig.max_connections_per_pile
MaxConnectionsPerPile == 3

\* Bounds: the last millisecond of the pool's clock, the number of
\* connection objects built, the messages queued on one connection and the
\* number of calls suspended at the same time.
MaxPoolClock == 3
MaxCreated == 5
MaxQueued == 1
MaxCalls == 2

\* f"{pile_id}_{int(time.time() * 1000)}"
ConnectionId(pile_id, now) == <<pile_id, now>>

ConnectionIds == {ConnectionId(p, t) : p \in PoolPiles, t \in 1..MaxPoolClock}

\* EnhancedConnection.__init__
EnhancedConnection(connection_id, pile_id) ==
    [connection_id |-> connection_id, pile_id |-> pile_id,
     state |-> "connecting", tasks_done |-> FALSE, queued |-> 0,
     reconnect_count |-> 0]

\* EnhancedConnection.initialize: the three background tasks are created.
initialize(c) == [c EXCEPT !.state = "connected"]

Pool(conns, piles_, load, objs) ==
    [connections |-> conns, pile_connections |-> piles_,
     connection_load |-> load, objects |-> objs]

\* list.remove(x): the first occurrence goes.
ListRemove(s, x) ==
    LET i == CHOOSE i \in 1..Len(s) :
                 s[i] = x /\ \A j \in 1..(i - 1) : s[j] # x
    IN SubSeq(s, 1, i - 1) \o SubSeq(s, i + 1, Len(s))

InList(s, x) == \E i \in 1..Len(s) : s[i] = x

\* EnhancedConnection.disconnect up to its first await that suspends:
\* "return" when the connection is already DISCONNECTED, else the await the
\* call is suspended at.
disconnect(c) ==
    IF c.state = "disconnected"
    THEN [c |-> c, at |-> "return"]
    ELSE [c |-> [c EXCEPT !.state = "disconnecting"],
          at |-> IF c.tasks_done THEN "await_close" ELSE "await_tasks"]

\* remove_connection after `await connection.disconnect()`.  The reconnect
\* task that the disconnect callback creates for an id still in the
\* dictionary is cancelled here before it has run, so it leaves no trace.
Unregister(P, connection_id, pile_id) ==
    IF connection_id \notin DOMAIN P.connections
    THEN [P |-> P, exc |-> Some("KeyError")]
    ELSE [P |-> Pool(Remove(P.connections, connection_id),
                     [P.pile_connections EXCEPT ![pile_id] =
                         IF InList(@, connection_id)
                         THEN ListRemove(@, connection_id) ELSE @],
                     Remove(P.connection_load, connection_id),
                     P.objects),
          exc |-> None]

\* add_connection after the check of the limit.
Register(P, pile_id, now) ==
    LET connection_id == ConnectionId(pile_id, now)
        oid == Len(P.objects) + 1
    IN Pool(Put(P.connections, connection_id, oid),
            [P.pile_connections EXCEPT ![pile_id] = Append(@, connection_id)],
            Put(P.connection_load, connection_id, 0),
            Append(P.objects,
                   initialize(EnhancedConnection(connection_id, pile_id))))

\* remove_connection(connection_id) up to its first suspension: wait is
\* None when the call has run to its end, else the connection object and
\* the await the call is suspended at.
remove_connection(P, connection_id) ==
    IF connection_id \notin DOMAIN P.connections
    THEN [P |-> P, wait |-> None]
    ELSE LET oid == P.connections[connection_id]
             d == disconnect(P.objects[oid])
             P1 == [P EXCEPT !.objects[oid] = d.c]
         IN IF d.at = "return"
            THEN [P |-> Unregister(P1, connection_id, d.c.pile_id).P,
                  wait |-> None]
            ELSE [P |-> P1, wait |-> Some([oid |-> oid, at |-> d.at])]

\* add_connection(websocket, pile_id) up to its first suspension.
add_connection(P, pile_id, now) ==
    IF Len(P.pile_connections[pile_id]) >= MaxConnectionsPerPile
    THEN LET oldest_connection_id == P.pile_connections[pile_id][1]
             r == remove_connection(P, oldest_connection_id)
         IN IF r.wait = None
            THEN [P |-> Register(r.P, pile_id, now), wait |-> None,
                  connection_id |-> oldest_connection_id]
            ELSE [P |-> r.P, wait |-> r.wait,
                  connection_id |-> oldest_connection_id]
    ELSE [P |-> Register(P, pile_id, now), wait |-> None,
          connection_id |-> ConnectionId(pile_id, now)]

\* The index of the first element of ids with the least load:
\* min(connection_ids, key=lambda cid: self.connection_load.get(cid, 0)).
LoadOf(P, cid) ==
    IF cid \in DOMAIN P.connection_load THEN P.connection_load[cid] ELSE 0

LeastLoaded(P, ids) ==
    ids[CHOOSE i \in 1..Len(ids) :
          /\ \A j \in 1..Len(ids) : LoadOf(P, ids[i]) <= LoadOf(P, ids[j])
          /\ \A j \in 1..(i - 1) : LoadOf(P, ids[j]) > LoadOf(P, ids[i])]

\* EnhancedConnection.send_message: the message is queued on a CONNECTED
\* connection only.
send_message(c) ==
    IF c.state # "connected"
    THEN [c |-> c, ret |-> FALSE]
    ELSE [c |-> [c EXCEPT !.queued = @ + 1], ret |-> TRUE]

\* send_message_to_pile(pile_id, data, priority)
send_message_to_pile(P, pile_id) ==
    LET connection_ids == P.pile_connections[pile_id]
        best_connection_id == LeastLoaded(P, connection_ids)
    IN IF connection_ids = <<>>
       THEN [P |-> P, ret |-> FALSE, target |-> None]
       ELSE IF best_connection_id \notin DOMAIN P.connections
       THEN [P |-> P, ret |-> FALSE, target |-> None]
       ELSE LET oid == P.connections[best_connection_id]
                r == send_message(P.objects[oid])
            IN IF P.objects[oid].state # "connected" \/ ~r.ret
               THEN [P |-> P, ret |-> FALSE, target |-> None]
               ELSE [P |-> [P EXCEPT !.objects[oid] = r.c,
                                     !.connection_load[best_connection_id] = @ + 1],
                     ret |-> TRUE, target |-> Some(oid)]

\* ---- the pool's steps ----

\* A call suspended inside connection.disconnect(): the operation, the
\* pile an add_connection is for, the id being removed, the object being
\* disconnected and the await the call waits at.
Call_(op, pile_id, connection_id, oid, at) ==
    [op |-> op, pile_id |-> pile_id, connection_id |-> connection_id,
     oid |-> oid, at |-> at]

Calls ==
    {Call_(op, p, c, o, at) :
        op \in {"add", "remove"}, p \in PoolPiles, c \in ConnectionIds,
        o \in 1..MaxCreated, at \in {"await_tasks", "await_close"}}

PoolState == Pool(connections, pile_connections, connection_load, objects)

SetPool(P) ==
    /\ connections' = P.connections
    /\ pile_connections' = P.pile_connections
    /\ connection_load' = P.connection_load
    /\ objects' = P.objects

Suspend(call) ==
    /\ BagCardinality(calls) < MaxCalls
    /\ calls' = calls (+) SetToBag({call})

\* The suspended call goes on to its next await, or ends.
Resume(call, next) == calls' = (calls (-) SetToBag({call})) (+) SetToBag(next)

\* The objects built so far plus those the suspended add_connection calls
\* will build.
Planned ==
    Len(objects) + BagCardinality([c \in {d \in DOMAIN calls : d.op = "add"} |-> calls[c]])

\* await optimizer.add_connection(websocket, pile_id)
AddConnection(pile_id) ==
    LET r == add_connection(PoolState, pile_id, poolClock) IN
    /\ Planned < MaxCreated
    /\ SetPool(r.P)
    /\ IF r.wait = None
       THEN UNCHANGED calls
       ELSE Suspend(Call_("add", pile_id, r.connection_id, Val(r.wait).oid,
                          Val(r.wait).at))
    /\ UNCHANGED <<poolClock, lastSend, retryVars, sessionVars, engineVars,
                   restVars>>

\* await optimizer.remove_connection(connection_id)
RemoveConnection(connection_id) ==
    LET r == remove_connection(PoolState, connection_id) IN
    /\ connection_id \in DOMAIN connections
    /\ SetPool(r.P)
    /\ IF r.wait = None
       THEN UNCHANGED calls
       ELSE Suspend(Call_("remove", objects[connections[connection_id]].pile_id,
                          connection_id, Val(r.wait).oid, Val(r.wait).at))
    /\ UNCHANGED <<poolClock, lastSend, retryVars, sessionVars, engineVars,
                   restVars>>

\* The cancelled background tasks of the connection have ended: the call
\* goes on to `await self.websocket.close()`.
TasksCancelled(call) ==
    /\ call \in DOMAIN calls
    /\ call.at = "await_tasks"
    /\ objects' = [objects EXCEPT ![call.oid].tasks_done = TRUE]
    /\ Resume(call, {[call EXCEPT !.at = "await_close"]})
    /\ UNCHANGED <<connections, pile_connections, connection_load, poolClock,
                   lastSend, retryVars, sessionVars, engineVars,
                   restVars>>

\* websocket.close() has returned: disconnect() ends, remove_connection
\* runs to its end and, in add_connection, the new connection is registered.
\* A KeyError of `del self.connections[connection_id]` ends the call.
SocketClosed(call) ==
    LET P1 == [PoolState EXCEPT !.objects[call.oid].state = "disconnected"]
        u == Unregister(P1, call.connection_id, objects[call.oid].pile_id)
    IN
    /\ call \in DOMAIN calls
    /\ call.at = "await_close"
    /\ SetPool(IF u.exc = None /\ call.op = "add"
               THEN Register(u.P, call.pile_id, poolClock)
               ELSE u.P)
    /\ Resume(call, {})
    /\ UNCHANGED <<poolClock, lastSend, retryVars, sessionVars, engineVars,
                   restVars>>

\* await optimizer.send_message_to_pile(pile_id, data, priority)
Send(pile_id) ==
    LET r == send_message_to_pile(PoolState, pile_id) IN
    /\ \A i \in 1..Len(objects) : objects[i].queued < MaxQueued
    /\ SetPool(r.P)
    /\ lastSend' = Some([pile_id |-> pile_id, ret |-> r.ret, target |-> r.target])
    /\ UNCHANGED <<poolClock, calls, retryVars, sessionVars, engineVars,
                   restVars>>

\* A millisecond passes.
PoolTick ==
    /\ poolClock < MaxPoolClock
    /\ poolClock' = poolClock + 1
    /\ UNCHANGED <<connections, pile_connections, connection_load, objects,
                   calls, lastSend, retryVars, sessionVars, engineVars,
                   restVars>>

PoolNext ==
    \/ \E p \in PoolPiles : AddConnection(p)
    \/ \E c \in ConnectionIds : RemoveConnection(c)
    \/ \E c \in Calls : TasksCancelled(c)
    \/ \E c \in Calls : SocketClosed(c)
    \/ \E p \in PoolPiles : Send(p)
    \/ PoolTick

PoolInit ==
    /\ connections = <<>>
    /\ pile_connections = [p \in PoolPiles |-> <<>>]
    /\ connection_load = <<>>
    /\ poolClock = 1
    /\ objects = <<>>
    /\ calls = EmptyBag
    /\ lastSend = None

\* ------------------------------------------------------------------
\* Disconnects, reconnect tasks and the cleanup loop
\* ------------------------------------------------------------------

\* ConnectionConfig.max_reconnect_attempts
max_reconnect_attempts == 5

\* Bounds: the connections added in one behaviour, the reconnect tasks
\* alive at the same time and the load counter of a connection.
MaxPooled == 1
MaxTasks == 2
MaxLoad == 2

TaskIds == 1 .. MaxTasks

\* The entry of reconnect_tasks whose task has ended.
DoneTask == 0

DisconnectCalls ==
    {Call_("disconnect", p, c, o, at) :
        p \in PoolPiles, c \in ConnectionIds, o \in 1..MaxPooled,
        at \in {"await_tasks", "await_close"}}

\* connect_pile up to its yield: await optimizer.add_connection(websocket,
\* pile_id), below the limit of the pile and in a millisecond of its own.
PoolAdd(pile_id) ==
    /\ Len(objects) < MaxPooled
    /\ Len(pile_connections[pile_id]) < MaxConnectionsPerPile
    /\ ConnectionId(pile_id, poolClock) \notin DOMAIN connections
    /\ SetPool(Register(PoolState, pile_id, poolClock))
    /\ scopes' = Put(scopes, ConnectionId(pile_id, poolClock), "open")
    /\ UNCHANGED <<poolClock, calls, lastSend, reconnect_tasks, tasks>>
    /\ UNCHANGED <<retryVars, sessionVars, engineVars, delayVars, queueVars,
                   healthVars, remoteVars>>

\* The body of `async with connect_pile(...)` is left: the finally block of
\* connect_pile brings the manager's statistics up to date and runs the
\* manager's disconnect callbacks, of which none is registered.
ConnectPileExit(connection_id) ==
    /\ connection_id \in DOMAIN scopes
    /\ scopes[connection_id] = "open"
    /\ scopes' = [scopes EXCEPT ![connection_id] = "ended"]
    /\ UNCHANGED <<poolVars, reconnect_tasks, tasks>>
    /\ UNCHANGED <<retryVars, sessionVars, engineVars, delayVars, queueVars,
                   healthVars, remoteVars>>

\* connection.disconnect() is called from outside the pool: by
\* receive_message when the peer has gone, or by the health monitor when
\* the connection has been idle.
Disconnect(connection_id) ==
    /\ connection_id \in DOMAIN connections
    /\ LET oid == connections[connection_id]
           d == disconnect(objects[oid])
       IN /\ d.at # "return"
          /\ objects' = [objects EXCEPT ![oid] = d.c]
          /\ Suspend(Call_("disconnect", d.c.pile_id, connection_id, oid, d.at))
    /\ Cardinality(DOMAIN tasks) + BagCardinality(calls) < MaxTasks
    /\ UNCHANGED <<connections, pile_connections, connection_load, poolClock,
                   lastSend, reconnect_tasks, tasks>>
    /\ UNCHANGED <<retryVars, sessionVars, engineVars, delayVars, queueVars,
                   healthVars, remoteVars, scopes>>

\* _on_connection_disconnect(connection_id): a reconnect task is created
\* when the connection in the table has attempts left.
on_connection_disconnect(conns, objs, rtasks, running, connection_id) ==
    IF connection_id \in DOMAIN conns
          /\ objs[conns[connection_id]].reconnect_count < max_reconnect_attempts
    THEN LET t == CHOOSE t \in TaskIds \ DOMAIN running :
                      \A u \in TaskIds \ DOMAIN running : t <= u
         IN [reconnect_tasks |-> Put(rtasks, connection_id, t),
             tasks |-> Put(running, t,
                           [connection_id |-> connection_id, at |-> "start"])]
    ELSE [reconnect_tasks |-> rtasks, tasks |-> running]

\* websocket.close() has returned in a disconnect() called from outside the
\* pool: the state becomes DISCONNECTED and the disconnect callbacks run.
Disconnected(call) ==
    LET objs == [objects EXCEPT ![call.oid].state = "disconnected"]
        r == on_connection_disconnect(connections, objs, reconnect_tasks, tasks,
                                      call.connection_id)
    IN
    /\ call \in DOMAIN calls
    /\ call.op = "disconnect"
    /\ call.at = "await_close"
    /\ objects' = objs
    /\ reconnect_tasks' = r.reconnect_tasks
    /\ tasks' = r.tasks
    /\ Resume(call, {})
    /\ UNCHANGED <<connections, pile_connections, connection_load, poolClock,
                   lastSend>>
    /\ UNCHANGED <<retryVars, sessionVars, engineVars, delayVars, queueVars,
                   healthVars, remoteVars, scopes>>

\* reconnect_tasks once task t has ended: the table keeps the task object.
Ended(rtasks, t) ==
    [c \in DOMAIN rtasks |-> IF rtasks[c] = t THEN DoneTask ELSE rtasks[c]]

\* _reconnect_connection(connection_id) up to its sleep.
ReconnectStart(t) ==
    /\ t \in DOMAIN tasks
    /\ tasks[t].at = "start"
    /\ LET connection_id == tasks[t].connection_id IN
       IF connection_id \notin DOMAIN connections
       THEN /\ tasks' = Remove(tasks, t)
            /\ reconnect_tasks' = Ended(reconnect_tasks, t)
            /\ UNCHANGED objects
       ELSE /\ objects' = [objects EXCEPT
                             ![connections[connection_id]].state = "reconnecting",
                             ![connections[connection_id]].reconnect_count = @ + 1]
            /\ tasks' = [tasks EXCEPT ![t].at = "sleep"]
            /\ UNCHANGED reconnect_tasks
    /\ UNCHANGED <<connections, pile_connections, connection_load, poolClock,
                   calls, lastSend>>
    /\ UNCHANGED <<retryVars, sessionVars, engineVars, delayVars, queueVars,
                   healthVars, remoteVars, scopes>>

\* _reconnect_connection after its sleep: the connection object the task
\* holds is declared CONNECTED, and the task ends.
ReconnectWake(t) ==
    /\ t \in DOMAIN tasks
    /\ tasks[t].at = "sleep"
    /\ objects' = [i \in 1..Len(objects) |->
                     IF objects[i].connection_id = tasks[t].connection_id
                     THEN [objects[i] EXCEPT !.state = "connected"]
                     ELSE objects[i]]
    /\ tasks' = Remove(tasks, t)
    /\ reconnect_tasks' = Ended(reconnect_tasks, t)
    /\ UNCHANGED <<connections, pile_connections, connection_load, poolClock,
                   calls, lastSend>>
    /\ UNCHANGED <<retryVars, sessionVars, engineVars, delayVars, queueVars,
                   healthVars, remoteVars, scopes>>

RECURSIVE RemoveAll(_, _)
\* `for connection_id in disconnected_connections:
\*      await self.remove_connection(connection_id)`: the connections are
\* DISCONNECTED, so that disconnect() returns at once and no call suspends.
RemoveAll(P, ids) ==
    IF ids = {} THEN P
    ELSE LET connection_id == CHOOSE c \in ids : TRUE
         IN RemoveAll(remove_connection(P, connection_id).P,
                      ids \ {connection_id})

\* One round of _cleanup_loop: the DISCONNECTED connections are removed,
\* their reconnect tasks cancelled, and every load counter is lowered by one.
CleanupLoop ==
    LET disconnected_connections ==
            {c \in DOMAIN connections : objects[connections[c]].state = "disconnected"}
        P == RemoveAll(PoolState, disconnected_connections)
        cancelled == {reconnect_tasks[c] :
                         c \in disconnected_connections \cap DOMAIN reconnect_tasks}
    IN
    /\ SetPool([P EXCEPT !.connection_load =
                   [c \in DOMAIN P.connection_load |->
                       IF P.connection_load[c] > 0 THEN P.connection_load[c] - 1
                       ELSE 0]])
    /\ reconnect_tasks' = [c \in DOMAIN reconnect_tasks \ disconnected_connections |->
                             reconnect_tasks[c]]
    /\ tasks' = [t \in DOMAIN tasks \ cancelled |-> tasks[t]]
    /\ UNCHANGED <<poolClock, calls, lastSend>>
    /\ UNCHANGED <<retryVars, sessionVars, engineVars, delayVars, queueVars,
                   healthVars, remoteVars, scopes>>

\* The message processor of a connection hands a queued message to the
\* transport (or drops it after its last retry).
Deliver(oid) ==
    /\ oid <= Len(objects)
    /\ objects[oid].queued > 0
    /\ ~objects[oid].tasks_done
    /\ objects[oid].state \in {"connected", "reconnecting"}
    /\ objects' = [objects EXCEPT ![oid].queued = @ - 1]
    /\ UNCHANGED <<connections, pile_connections, connection_load, poolClock,
                   calls, lastSend, restVars>>
    /\ UNCHANGED <<retryVars, sessionVars, engineVars>>

\* send_message_to_pile, while the load counters are within the bound.
PoolSend(pile_id) ==
    /\ \A c \in DOMAIN connection_load : connection_load[c] < MaxLoad
    /\ Send(pile_id)

ReconnectNext ==
    \/ \E p \in PoolPiles : PoolAdd(p)
    \/ \E c \in ConnectionIds : ConnectPileExit(c)
    \/ \E c \in ConnectionIds : Disconnect(c)
    \/ \E c \in DisconnectCalls : TasksCancelled(c)
    \/ \E c \in DisconnectCalls : Disconnected(c)
    \/ \E t \in TaskIds : ReconnectStart(t)
    \/ \E t \in TaskIds : ReconnectWake(t)
    \/ CleanupLoop
    \/ \E p \in PoolPiles : PoolSend(p)
    \/ \E o \in 1..MaxPooled : Deliver(o)

ReconnectInit ==
    /\ reconnect_tasks = <<>>
    /\ tasks = <<>>
    /\ scopes = <<>>

\* ------------------------------------------------------------------
\* calculate_delay called on its own
\* ------------------------------------------------------------------

\* RetryStrategy
RetryStrategies == {"exponential_backoff", "fixed_interval", "linear_backoff"}

\* Delays are floats: `base_delay * (2 ** attempt)` converts the integer
\* power to a float, which raises OverflowError from 2 ** 1024 on.
FloatMaxExp == 1024

MaxAttempt == 5
MaxBaseDelay == 3
MaxMaxDelay == 4

\* The attempts a call is made with: the small ones, and the first one whose
\* power of two is no float.
DelayAttempts == (0 .. MaxAttempt) \cup {FloatMaxExp}

\* The int-to-float conversion inside calculate_delay that raises.
calculate_delay_raises(attempt, strategy) ==
    strategy = "exponential_backoff" /\ attempt >= FloatMaxExp

\* A call of calculate_delay: what it raises, or what it returns.
CallCalculateDelay(attempt, strategy, base_delay, max_delay) ==
    IF calculate_delay_raises(attempt, strategy)
    THEN [exc |-> Some("OverflowError"), delay |-> None]
    ELSE [exc |-> None,
          delay |-> Some(calculate_delay(attempt, strategy, base_delay, max_delay))]

CalculateDelay(attempt, strategy, base_delay, max_delay) ==
    /\ delayCall' = Some([attempt |-> attempt, strategy |-> strategy,
                          base_delay |-> base_delay, max_delay |-> max_delay])
    /\ delayResult' = CallCalculateDelay(attempt, strategy, base_delay, max_delay)
    /\ UNCHANGED <<retryVars, sessionVars, engineVars, poolVars, queueVars, healthVars,
                   remoteVars, reconnVars>>

DelayNext ==
    \E attempt \in DelayAttempts, strategy \in RetryStrategies,
       base_delay \in 0 .. MaxBaseDelay, max_delay \in 0 .. MaxMaxDelay :
        CalculateDelay(attempt, strategy, base_delay, max_delay)

DelayInit ==
    /\ delayCall = None
    /\ delayResult = [exc |-> None, delay |-> None]

\* ------------------------------------------------------------------
\* One connection's message queue and its delivery loop
\* ------------------------------------------------------------------
\* The connection is followed from initialize() on: CONNECTED, the message
\* processor waiting at message_queue.get().  message_queue is the heap of
\* the asyncio.PriorityQueue, kept by heappush / heappop with
\* QueuedMessage.__lt__ as the comparison.

\* MessagePriority: LOW .. CRITICAL
MessagePriorities == 1 .. 4

\* QueuedMessage.max_retries
QueuedMessageMaxRetries == 3

\* ConnectionConfig.batch_size and .max_queue_size
batch_size == 10
max_queue_size == 1000

\* Bounds: the messages created, the last instant of datetime.now() and the
\* number of send_json calls that raise.
MaxMessages == 2
MaxQueueClock == 2
MaxSendFailures == 4

MessageIds == 1 .. MaxMessages

\* A deployment's ConnectionConfig.max_queue_size that is smaller than the
\* default, and the values of it the connection is built with:
\* asyncio.PriorityQueue(maxsize=config.max_queue_size).
SmallQueueSize == 1
QueueSizes == {max_queue_size, SmallQueueSize}

\* QueuedMessage(data=data, priority=priority, callback=callback); id stands
\* for the object's identity.
QueuedMessage(id, priority, timestamp, callback) ==
    [id |-> id, priority |-> priority, timestamp |-> timestamp,
     retry_count |-> 0, max_retries |-> QueuedMessageMaxRetries,
     callback |-> callback]

ltMutant(self, other) == self.timestamp < other.timestamp

\* QueuedMessage.__lt__
lt(self, other) ==
    IF self.priority # other.priority
    THEN self.priority > other.priority
    ELSE self.timestamp < other.timestamp

\* heapq._siftdown; positions count from 0 as in the library.
RECURSIVE siftdown(_, _, _, _)
siftdown(heap, startpos, pos, newitem) ==
    IF pos > startpos
    THEN LET parentpos == (pos - 1) \div 2
             parent == heap[parentpos + 1]
         IN IF lt(newitem, parent)
            THEN siftdown([heap EXCEPT ![pos + 1] = parent], startpos,
                          parentpos, newitem)
            ELSE [heap EXCEPT ![pos + 1] = newitem]
    ELSE [heap EXCEPT ![pos + 1] = newitem]

\* The loop of heapq._siftup: the smaller child is moved up until a leaf
\* is reached.
RECURSIVE siftup_loop(_, _)
siftup_loop(heap, pos) ==
    LET endpos == Len(heap)
        childpos == 2 * pos + 1
        rightpos == childpos + 1
        c == IF rightpos < endpos /\ ~lt(heap[childpos + 1], heap[rightpos + 1])
             THEN rightpos ELSE childpos
    IN IF childpos < endpos
       THEN siftup_loop([heap EXCEPT ![pos + 1] = heap[c + 1]], c)
       ELSE [heap |-> heap, pos |-> pos]

\* heapq._siftup
siftup(heap, pos) ==
    LET newitem == heap[pos + 1]
        r == siftup_loop(heap, pos)
    IN siftdown(r.heap, pos, r.pos, newitem)

\* PriorityQueue._put
heappush(heap, item) == siftdown(Append(heap, item), 0, Len(heap), item)

\* PriorityQueue._get
heappop(heap) ==
    LET lastelt == heap[Len(heap)]
        rest == SubSeq(heap, 1, Len(heap) - 1)
    IN IF rest # <<>>
       THEN [item |-> rest[1], heap |-> siftup([rest EXCEPT ![1] = lastelt], 0)]
       ELSE [item |-> lastelt, heap |-> rest]

MayRetryMutant(message) == message.retry_count <= message.max_retries

\* `if message.retry_count < message.max_retries`
MayRetry(message) == message.retry_count < message.max_retries

Processor(at, i) == [at |-> at, i |-> i]

\* EnhancedConnection.send_message(data, priority, callback).  On a
\* connection that is not CONNECTED it returns False and changes nothing;
\* `await self.message_queue.put(message)` waits while the queue is full.
QueueSendMessage(priority, callback) ==
    /\ queue_state = "connected"
    /\ created < MaxMessages
    /\ Len(message_queue) < queue_maxsize
    /\ message_queue' = heappush(message_queue,
                                 QueuedMessage(created + 1, priority,
                                               queueClock, callback))
    /\ created' = created + 1
    /\ UNCHANGED <<batch, processor, queue_state, queueClock, handed, callbacks,
                   send_failures, fate, queue_maxsize,
                   retryVars, sessionVars, engineVars, poolVars, delayVars,
                   healthVars, remoteVars, reconnVars>>

\* _heartbeat_loop: a heartbeat is queued with MessagePriority.HIGH and no
\* callback.
HeartbeatLoop == QueueSendMessage(3, FALSE)

\* _message_processor: message_queue.get() returns a message, which joins the
\* batch; the batch is sent when it is full or the queue is empty.  (A
\* timeout of the get finds the batch empty and changes nothing.)
ProcessorGet ==
    /\ processor.at = "get"
    /\ queue_state \in {"connected", "reconnecting"}
    /\ message_queue # <<>>
    /\ LET r == heappop(message_queue)
           b == Append(batch, r.item)
       IN /\ message_queue' = r.heap
          /\ batch' = b
          /\ processor' = IF Len(b) >= batch_size \/ r.heap = <<>>
                          THEN Processor("send", 1) ELSE Processor("get", 0)
    /\ UNCHANGED <<queue_state, queueClock, created, handed, callbacks,
                   send_failures, fate, queue_maxsize,
                   retryVars, sessionVars, engineVars, poolVars, delayVars,
                   healthVars, remoteVars, reconnVars>>

\* After batch[i] is dealt with: the next message, or batch.clear() and
\* back to the get.
NextInBatch(b, i) ==
    IF i = Len(b) THEN [batch |-> <<>>, processor |-> Processor("get", 0)]
    ELSE [batch |-> b, processor |-> Processor("send", i + 1)]

\* _send_batch, one message of the batch: websocket.send_json returns (ok)
\* or raises.  A requeue that finds the queue full waits in
\* message_queue.put, which nothing but this loop would ever make room for.
ProcessorSend(ok) ==
    LET message == batch[processor.i]
        retried == [message EXCEPT !.retry_count = @ + 1]
        n == NextInBatch(batch, processor.i)
        call(success) ==
            IF message.callback
            THEN [callbacks EXCEPT ![message.id] = Append(@, success)]
            ELSE callbacks
    IN
    /\ processor.at = "send"
    /\ ok \/ send_failures < MaxSendFailures
    /\ send_failures' = IF ok THEN send_failures ELSE send_failures + 1
    /\ handed' = [handed EXCEPT ![message.id] = @ + 1]
    /\ fate' = IF ok THEN [fate EXCEPT ![message.id] = "delivered"]
               ELSE IF MayRetry(message) THEN fate
               ELSE [fate EXCEPT ![message.id] = "dropped"]
    /\ IF ok
       THEN /\ callbacks' = call(TRUE)
            /\ batch' = n.batch /\ processor' = n.processor
            /\ UNCHANGED message_queue
       ELSE IF MayRetry(message)
       THEN /\ UNCHANGED callbacks
            /\ IF Len(message_queue) < queue_maxsize
               THEN /\ message_queue' = heappush(message_queue, retried)
                    /\ batch' = n.batch /\ processor' = n.processor
               ELSE /\ batch' = [batch EXCEPT ![processor.i] = retried]
                    /\ processor' = Processor("put", processor.i)
                    /\ UNCHANGED message_queue
       ELSE /\ callbacks' = call(FALSE)
            /\ batch' = n.batch /\ processor' = n.processor
            /\ UNCHANGED message_queue
    /\ UNCHANGED <<queue_state, queueClock, created, queue_maxsize,
                   retryVars, sessionVars, engineVars, poolVars, delayVars,
                   healthVars, remoteVars, reconnVars>>

\* EnhancedConnection.disconnect: the state changes and the message
\* processor task is cancelled at the await it is waiting at.
QueueDisconnect ==
    /\ queue_state = "connected"
    /\ queue_state' = "disconnecting"
    /\ processor' = Processor("cancelled", 0)
    /\ UNCHANGED <<message_queue, batch, queueClock, created, handed, callbacks,
                   send_failures, fate, queue_maxsize,
                   retryVars, sessionVars, engineVars, poolVars, delayVars,
                   healthVars, remoteVars, reconnVars>>

\* datetime.now() moves on.
QueueTick ==
    /\ queueClock < MaxQueueClock
    /\ queueClock' = queueClock + 1
    /\ UNCHANGED <<message_queue, batch, processor, queue_state, created,
                   handed, callbacks, send_failures, fate, queue_maxsize,
                   retryVars, sessionVars, engineVars, poolVars, delayVars,
                   healthVars, remoteVars, reconnVars>>

\* The callers outside the connection pass a callback; the messages
\* without one are the heartbeats.
QueueNext ==
    \/ \E priority \in MessagePriorities : QueueSendMessage(priority, TRUE)
    \/ HeartbeatLoop
    \/ ProcessorGet
    \/ \E ok \in BOOLEAN : ProcessorSend(ok)
    \/ QueueDisconnect
    \/ QueueTick

QueueInit ==
    /\ message_queue = <<>>
    /\ batch = <<>>
    /\ processor = Processor("get", 0)
    /\ queue_state = "connected"
    /\ queueClock = 1
    /\ created = 0
    /\ handed = [id \in MessageIds |-> 0]
    /\ callbacks = [id \in MessageIds |-> <<>>]
    /\ send_failures = 0
    /\ fate = [id \in MessageIds |-> "pending"]
    /\ queue_maxsize \in QueueSizes

\* ------------------------------------------------------------------
\* The health of a pile, from the statistics
\* ------------------------------------------------------------------

\* Bound on the operations recorded in one behaviour.
MaxOperations == 4

\* The actions and the error types the operations are recorded under.
HealthActions == {"RemoteStartTransaction", "Reset"}
HealthErrorTypes == {"timeout_error", "communication_error"}

RECURSIVE SumOf(_, _, _)
\* sum(stats[field] for stats in pile_stats.values())
SumOf(stats, keys, field) ==
    IF keys = {} THEN 0
    ELSE LET k == CHOOSE k \in keys : TRUE
         IN stats[k][field] + SumOf(stats, keys \ {k}, field)

\* The operations recorded so far.
Recorded(stats) ==
    SumOf(stats, DOMAIN stats, "success_count")
        + SumOf(stats, DOMAIN stats, "error_count")

\* success_rate >= percent / 100, the rate being total_success /
\* total_operations.
RateAtLeast(total_success, total_operations, percent) ==
    total_success * 100 >= percent * total_operations

\* get_pile_health_status(pile_id)
get_pile_health_status(stats, pile_id) ==
    LET pile_stats == {key \in DOMAIN stats :
                          StartsWith(key, Tokens(pile_id) \o <<":">>)}
        total_success == SumOf(stats, pile_stats, "success_count")
        total_error == SumOf(stats, pile_stats, "error_count")
        total_operations == total_success + total_error
        Unknown == [status |-> "unknown", total_success |-> 0,
                    total_operations |-> 0, statistics |-> {}]
    IN IF pile_stats = {} THEN Unknown
       ELSE IF total_operations = 0 THEN Unknown
       ELSE [status |->
                IF RateAtLeast(total_success, total_operations, 95) THEN "healthy"
                ELSE IF RateAtLeast(total_success, total_operations, 80) THEN "warning"
                ELSE "critical",
             total_success |-> total_success,
             total_operations |-> total_operations,
             statistics |-> pile_stats]

\* _record_success(pile_id, action, 0), as a call that succeeded at once
\* leaves it.
RecordSuccess(pile_id, action) ==
    /\ Recorded(error_stats) < MaxOperations
    /\ error_stats' = record_success(error_stats, pile_id, action, 0)
    /\ UNCHANGED <<rPc, rAction, rPile, rAttempt, rHistory, rDelays, rLastError,
                   rRuns, health, sessionVars, engineVars, poolVars, delayVars,
                   queueVars, remoteVars, reconnVars>>

\* _record_error(pile_id, action, error_type, 0)
RecordError(pile_id, action, error_type) ==
    /\ Recorded(error_stats) < MaxOperations
    /\ error_stats' = record_error(error_stats, pile_id, action, error_type, 0)
    /\ UNCHANGED <<rPc, rAction, rPile, rAttempt, rHistory, rDelays, rLastError,
                   rRuns, health, sessionVars, engineVars, poolVars, delayVars,
                   queueVars, remoteVars, reconnVars>>

GetPileHealthStatus(pile_id) ==
    /\ health' = Some([pile_id |-> pile_id,
                       ret |-> get_pile_health_status(error_stats, pile_id)])
    /\ UNCHANGED <<retryVars, sessionVars, engineVars, poolVars, delayVars,
                   queueVars, remoteVars, reconnVars>>

HealthNext ==
    \/ \E p \in Piles, a \in HealthActions : RecordSuccess(p, a)
    \/ \E p \in Piles, a \in HealthActions, t \in HealthErrorTypes :
          RecordError(p, a, t)
    \/ \E p \in Piles : GetPileHealthStatus(p)

HealthInit == health = None

\* ------------------------------------------------------------------
\* remote_start_transaction: the operation under the retry loop
\* ------------------------------------------------------------------

\* The connector ids and id tags the engine is asked to start with.
ConnectorIdInputs == {-1, 0, 1}
IdTagInputs == {"", "tag1"}

\* The message ids uuid4 gives to the attempts of one call.
Uuids == {"u1", "u2", "u3", "u4"}

\* _validate_connector_id(connector_id), for an int
validate_connector_idMutant(connector_id) == TRUE
validate_connector_id(connector_id) == connector_id >= 0

\* validate_message("RemoteStartTransaction", {connectorId, idTag}): both
\* fields are in the payload, whatever their values.
validate_remote_start(connector_id, id_tag) ==
    validate_connector_id(connector_id)

\* remote_start_transaction(pile_id, id_tag, connector_id) is called and
\* enters execute_with_retry.
RemoteStartTransaction(pile_id, id_tag, connector_id) ==
    /\ Enter("RemoteStartTransaction", pile_id)
    /\ remote' = [connector_id |-> connector_id, id_tag |-> id_tag, sent |-> 0,
                  result |-> None]
    /\ UNCHANGED error_stats
    /\ UNCHANGED <<sessionVars, engineVars, poolVars, delayVars, queueVars,
                   healthVars, reconnVars>>

\* One iteration of the loop with _execute_remote_start as the operation:
\* the payload is validated, the request recorded as pending and given to
\* ConnectionManager.send_message, which records a connection error and
\* raises when no connection took the message (delivered = FALSE).  When
\* the loop ends, remote_start_transaction returns the operation's result
\* or turns the exception into a result of status "error".
RemoteStartAttempt(delivered) ==
    LET valid == validate_remote_start(remote.connector_id, remote.id_tag)
        outcome == IF ~valid THEN "ValueError"
                   ELSE IF delivered THEN "ok" ELSE "Exception"
        message_id == CHOOSE u \in Uuids \ DOMAIN pending_requests : TRUE
        stats == IF valid /\ ~delivered
                 THEN record_error(error_stats, rPile, "connection",
                                   "communication_error", 0)
                 ELSE error_stats
    IN /\ valid => Uuids \ DOMAIN pending_requests # {}
       /\ Iterate(stats, outcome)
       /\ pending_requests' =
             IF valid
             THEN Put(pending_requests, message_id,
                      [action |-> "RemoteStartTransaction", pile_id |-> rPile])
             ELSE pending_requests
       /\ remote' = [remote EXCEPT
                       !.sent = IF valid /\ delivered THEN @ + 1 ELSE @,
                       !.result = CASE rPc' = "returned" -> Some("success")
                                    [] rPc' = "raised" -> Some("error")
                                    [] OTHER -> None]
       /\ UNCHANGED <<piles, clock, txAllocated, request, response>>
       /\ UNCHANGED <<sessionVars, poolVars, delayVars, queueVars, healthVars,
                      reconnVars>>

\* The sleep between two attempts ends.
RemoteStartWake ==
    /\ Wake
    /\ UNCHANGED <<sessionVars, engineVars, poolVars, restVars>>

RemoteNext ==
    \/ \E p \in Piles, t \in IdTagInputs, c \in ConnectorIdInputs :
          RemoteStartTransaction(p, t, c)
    \/ \E d \in BOOLEAN : RemoteStartAttempt(d)
    \/ RemoteStartWake

RemoteInit == remote = [connector_id |-> 1, id_tag |-> "", sent |-> 0, result |-> None]

(***************************************************************************)
(*                           SPECIFICATIONS                                *)
(***************************************************************************)

Init == RetryInit /\ SessionInit /\ EngineInit /\ PoolInit /\ DelayInit
        /\ QueueInit /\ HealthInit /\ RemoteInit
        /\ ReconnectInit

\* The protocol engine on top of the session manager and the pile registry.
Spec == Init /\ [][EngineNext]_vars

\* Piles report on transactions, their own or not.
SpecFrames == Init /\ [][FrameNext]_vars

\* The session manager called directly.
SpecSession == Init /\ [][SessionNext]_vars

\* The allocation of transaction ids as the wall clock advances.
SpecTx == Init /\ [][TxNext]_vars

\* The retry/error coordinator.
SpecRetry == Init /\ [][RetryNext]_vars

\* The connection pool under concurrent calls.
SpecPool == Init /\ [][PoolNext]_vars

\* calculate_delay applied to every input of the bounded sets.
SpecDelay == Init /\ [][DelayNext]_vars

\* One connection's queue, its producers and its delivery loop.
SpecQueue == Init /\ [][QueueNext]_vars

\* The same, the message processor being a task the event loop runs
\* whenever it is ready to take a message or to send one.
FairSpecQueue ==
    /\ SpecQueue
    /\ WF_vars(ProcessorGet)
    /\ WF_vars(\E ok \in BOOLEAN : ProcessorSend(ok))

\* Operations are recorded and the health of a pile is asked for.
SpecHealth == Init /\ [][HealthNext]_vars

\* The engine starts charging sessions remotely.
SpecRemote == Init /\ [][RemoteNext]_vars

\* Connections of the pool disconnect and are reconnected or cleaned up.
SpecReconnect == Init /\ [][ReconnectNext]_vars

\* The same, the suspended disconnect calls, the reconnect tasks and the
\* cleanup loop being tasks the event loop runs whenever they are ready.
FairSpecReconnect ==
    /\ SpecReconnect
    /\ \A c \in DisconnectCalls : WF_vars(TasksCancelled(c)) /\ WF_vars(Disconnected(c))
    /\ \A t \in TaskIds : WF_vars(ReconnectStart(t)) /\ WF_vars(ReconnectWake(t))
    /\ WF_vars(CleanupLoop)

(***************************************************************************)
(*                               CLAIMS                                    *)
(***************************************************************************)

(***************************************************************************)
(* C4.  ExecuteWithRetry invokes the operation at most maxRetries+1 times, *)
(* and when the first attempt fails with a ValidationError (a ValueError   *)
(* of the operation) the operation is invoked exactly once: the call has   *)
(* then ended by raising.                                                  *)
(***************************************************************************)
C4_AtMostMaxRetriesPlusOne ==
    /\ Len(rHistory) <= get_retry_config(rAction).max_retries + 1
    /\ (Len(rHistory) >= 1 /\ rHistory[1] = "ValueError")
          => (Len(rHistory) = 1 /\ rPc = "raised")

C4_Witness ==
    /\ rPc = "raised"
    /\ rHistory = <<"ValueError">>

\* OCPPMessageValidator.required_fields, for the pile-initiated actions.
required_fields ==
    [a \in PileActions |->
       CASE a = "BootNotification" -> {"chargePointVendor", "chargePointModel"}
         [] a = "StatusNotification" -> {"connectorId", "status", "errorCode"}
         [] a = "StartTransaction" -> {"connectorId", "idTag", "meterStart", "timestamp"}
         [] a = "StopTransaction" -> {"transactionId", "meterStop", "timestamp"}
         [] a = "Heartbeat" -> {}
         [] a = "MeterValues" -> {"connectorId", "meterValue"}
         [] OTHER -> {"idTag"}]

\* A value that is a string with something other than blanks in it.
NonEmptyString(v) == v.t = "str" /\ v.s \notin {"", " "}

\* A CALL frame [2, messageId, action, payload] with a non-empty string
\* messageId, a pile-initiated action and a payload carrying the action's
\* required fields.
IsValidCall(message) ==
    /\ message.shape = "list"
    /\ Len(message.items) = 4
    /\ message.items[1] = JInt(2)
    /\ NonEmptyString(message.items[2])
    /\ message.items[3].t = "str"
    /\ message.items[3].s \in PileActions
    /\ message.items[4].t = "dict"
    /\ required_fields[message.items[3].s] \subseteq DOMAIN message.items[4].p

\* A frame that is not a sequence of length >= 3, or whose type is not in
\* {2, 3, 4}, or whose messageId is not a non-empty string, or a CALL whose
\* length is not 4, whose action is not a non-empty string or whose payload
\* is not a mapping.
FailsStructuralValidation(message) ==
    LET n == Len(message.items) IN
    \/ message.shape # "list"
    \/ n < 3
    \/ ~(message.items[1].t = "int" /\ message.items[1].i \in {2, 3, 4})
    \/ ~NonEmptyString(message.items[2])
    \/ /\ message.items[1] = JInt(2)
       /\ (n # 4 \/ ~NonEmptyString(message.items[3]) \/ message.items[4].t # "dict")

(***************************************************************************)
(* C1.  For every valid CALL frame (non-empty string messageId, a          *)
(* pile-initiated action, a payload with the action's required fields),    *)
(* HandleMessage returns a CALLRESULT whose messageId is the request's.    *)
(***************************************************************************)
C1_ValidCallGetsCallResult ==
    (request.op = "handle_message" /\ IsValidCall(request.message))
       => /\ response.kind = "CALLRESULT"
          /\ response.mid = request.message.items[2]

(***************************************************************************)
(* C2.  For every frame that fails structural validation, the response of  *)
(* HandleMessage is a CALLERROR whose error code is FormatViolation.       *)
(***************************************************************************)
C2_BadFrameGetsFormatViolation ==
    (request.op = "handle_message" /\ FailsStructuralValidation(request.message))
       => /\ response.kind = "CALLERROR"
          /\ response.code = "FormatViolation"

(***************************************************************************)
(* C3.  Handling a frame that fails structural validation mutates nothing: *)
(* the session store, the transaction-id index, the total-energy           *)
(* accumulator, the pile registry and the pending-request table are the    *)
(* same after HandleMessage as before it.                                  *)
(***************************************************************************)
C3_BadFrameMutatesNothing ==
    [][(/\ request'.op = "handle_message"
        /\ FailsStructuralValidation(request'.message)
        /\ HandleMessage(request'.pile, request'.message))
          => UNCHANGED <<sessions, transaction_sessions, total_sessions,
                         total_energy_delivered, piles, pending_requests>>]_vars

\* A malformed frame that carries a StopTransaction for transaction 1 has
\* been handled while transaction 1 is live, pile p1 is registered and
\* request r1 is pending.
C3_Witness ==
    /\ request.op = "handle_message"
    /\ request.message = Call(JStr(" "), JStr("StopTransaction"),
                              JDict(StopPayload(1, "iso")))
    /\ response.kind = "CALLERROR"
    /\ 1 \in DOMAIN transaction_sessions
    /\ "p1" \in DOMAIN piles
    /\ "r1" \in DOMAIN pending_requests

(***************************************************************************)
(* C8.  Transaction ids allocated by accepted StartTransaction calls are   *)
(* collision-free and monotonic: a later allocation is strictly larger     *)
(* than every earlier one, also within the same clock millisecond.         *)
(***************************************************************************)
C8_TransactionIdsStrictlyIncrease ==
    \A i, j \in 1..Len(txAllocated) : i < j => txAllocated[i] < txAllocated[j]

\* A meter value that carries one cumulative energy sample.
EnergySamples ==
    {MeterValueOf(<<SampledValue(EnergyRegister, v, u)>>) :
        v \in {0, 2, 500}, u \in {"Wh", "kWh"}}

(***************************************************************************)
(* C6.  Applying the same cumulative energy sample (measurand              *)
(* Energy.Active.Import.Register, same value and unit) to a session twice  *)
(* through update_meter_values yields the same energy_delivered and the    *)
(* same cost as applying it once, for every session that a transaction id  *)
(* resolves to in a reachable store.                                       *)
(***************************************************************************)
C6_EnergySampleIdempotent ==
    \A tx \in DOMAIN transaction_sessions, mv \in EnergySamples :
       LET sid == transaction_sessions[tx]
           once == update_meter_values(Manager, Some(tx), <<mv>>).m
           twice == update_meter_values(once, Some(tx), <<mv>>).m
       IN sid \in DOMAIN sessions =>
             /\ twice.sessions[sid].energy_delivered = once.sessions[sid].energy_delivered
             /\ twice.sessions[sid].cost = once.sessions[sid].cost

\* The same 500 Wh sample has been applied to session s1 twice in a row:
\* its history holds it twice, energy and cost are those of one sample.
C6_Witness ==
    /\ request.op = "update_meter_values"
    /\ "s1" \in DOMAIN sessions
    /\ sessions["s1"].meter_values =
          <<MeterValueOf(<<SampledValue(EnergyRegister, 500, "Wh")>>),
            MeterValueOf(<<SampledValue(EnergyRegister, 500, "Wh")>>)>>
    /\ sessions["s1"].energy_delivered = 500
    /\ sessions["s1"].cost = 500 * PricePerKwhTimes2

C5_PileConnectionsWithinLimit ==
    \A p \in PoolPiles : Len(pile_connections[p]) <= MaxConnectionsPerPile

(***************************************************************************)
(* C7.  Send(pile) returns false exactly when the pile has no connection   *)
(* in Connected state; when at least one of the pile's connections is      *)
(* Connected it queues the message on a Connected connection of that pile  *)
(* and returns true; it never queues on a connection that is not           *)
(* Connected.                                                              *)
(***************************************************************************)
\* The connection objects registered for the pile that are Connected.
ConnectedOf(p) ==
    {connections[pile_connections[p][i]] :
        i \in {j \in 1..Len(pile_connections[p]) :
                  pile_connections[p][j] \in DOMAIN connections}}
    \cap {o \in 1..Len(objects) : objects[o].state = "connected"}

C7_SendFailsExactlyWithoutConnected ==
    [][\A p \in PoolPiles :
         Send(p) =>
            LET sent == Val(lastSend') IN
            /\ (sent.ret = FALSE) <=> (ConnectedOf(p) = {})
            /\ sent.ret = TRUE =>
                  /\ sent.target # None
                  /\ Val(sent.target) \in ConnectedOf(p)
                  /\ objects'[Val(sent.target)].queued
                        = objects[Val(sent.target)].queued + 1
            /\ \A o \in 1..Len(objects) :
                  objects[o].state # "connected"
                     => objects'[o].queued = objects[o].queued]_vars

(***************************************************************************)
(* C11.  A session's status only changes along Preparing -> Charging ->    *)
(* {SuspendedEV, SuspendedEVSE} -> Finishing -> Completed, or to Faulted   *)
(* or Cancelled from a non-terminal state; the status of a Completed,      *)
(* Faulted or Cancelled session is never changed again.                    *)
(***************************************************************************)
TerminalStatuses == {"Completed", "Faulted", "Cancelled"}

\* The position of a status on the path of a session's life.
StatusRank(st) ==
    CASE st = "Preparing" -> 0
      [] st = "Charging" -> 1
      [] st \in {"SuspendedEV", "SuspendedEVSE"} -> 2
      [] st = "Finishing" -> 3
      [] OTHER -> 4

\* The widest reading of the path: a step forward along it (a suspended
\* session may also resume charging), or a failure or cancellation.
StatusMayChange(from, to) ==
    /\ from \notin TerminalStatuses
    /\ \/ to \in {"Faulted", "Cancelled"}
       \/ StatusRank(to) > StatusRank(from)
       \/ StatusRank(from) = 2 /\ to = "Charging"

LacksRequiredField(message) ==
    /\ ~FailsStructuralValidation(message)
    /\ message.items[1] = JInt(2)
    /\ message.items[3].s \in PileActions
    /\ ~(required_fields[message.items[3].s] \subseteq DOMAIN message.items[4].p)

C12_MissingFieldIsFormatViolation ==
    [][(/\ request'.op = "handle_message"
        /\ LacksRequiredField(request'.message)
        /\ HandleMessage(request'.pile, request'.message))
          => /\ response'.kind = "CALLERROR"
             /\ response'.code = "FormatViolation"
             /\ UNCHANGED <<sessions, transaction_sessions, total_sessions,
                            total_energy_delivered, piles>>]_vars

(***************************************************************************)
(* C13.  When the handler of a pile-initiated CALL fails during dispatch,  *)
(* HandleMessage returns a CALLERROR with the request's messageId and code *)
(* InternalError carrying the failure message; no failure of a handler     *)
(* leaves HandleMessage.                                                   *)
(***************************************************************************)
\* A structurally sound CALL of a pile-initiated action.
IsPileCall(message) ==
    /\ ~FailsStructuralValidation(message)
    /\ message.items[1] = JInt(2)
    /\ message.items[3].s \in PileActions

\* The failure of the action's handler on this frame in the current state,
\* if it fails.
HandlerFailure(pile_id, message) ==
    Dispatch(Engine, pile_id, message.items[3].s, message.items[4].p, clock,
             CHOOSE s \in SessionIds \ DOMAIN sessions : TRUE).exc

C13_HandlerFailureIsInternalError ==
    [][(/\ request'.op = "handle_message"
        /\ IsPileCall(request'.message)
        /\ HandleMessage(request'.pile, request'.message))
          => /\ response'.kind # "raised"
             /\ HandlerFailure(request'.pile, request'.message) # None
                   => /\ response'.kind = "CALLERROR"
                      /\ response'.mid = request'.message.items[2]
                      /\ response'.code = "InternalError"
                      /\ response'.description
                            = Val(HandlerFailure(request'.pile, request'.message))]_vars

\* The StopTransaction of the live transaction 1 with a timestamp that does
\* not parse has been answered: the handler's ValueError is in the response.
C13_Witness ==
    /\ request.op = "handle_message"
    /\ request.message = Call(JStr("m1"), JStr("StopTransaction"),
                              JDict(StopPayload(1, "bad")))
    /\ response = create_call_error(JStr("m1"), "InternalError", "ValueError")

(***************************************************************************)
(* C14.  HandleMessage never emits a response to a frame of type           *)
(* CALLRESULT (3) or CALLERROR (4): it returns nil for every such frame,   *)
(* removes the pending request whose messageId matches, and leaves the     *)
(* pending-request table unchanged when no entry matches.                  *)
(***************************************************************************)
\* A frame of type 3 or 4 that passes the structural checks (a sequence of
\* at least three items with a non-empty string messageId).
IsReply(message) ==
    /\ ~FailsStructuralValidation(message)
    /\ message.items[1] \in {JInt(3), JInt(4)}

C14_RepliesAreCorrelatedSilently ==
    [][(/\ request'.op = "handle_message"
        /\ IsReply(request'.message)
        /\ HandleMessage(request'.pile, request'.message))
          => /\ response'.kind = "None"
             /\ pending_requests' =
                   [k \in (DOMAIN pending_requests) \ {request'.message.items[2].s}
                       |-> pending_requests[k]]]_vars

(***************************************************************************)
(* C15.  When every attempt fails, or an attempt fails with a              *)
(* ValidationError, ExecuteWithRetry ends by raising the failure of the    *)
(* last attempt to its caller; it never returns a normal result after a    *)
(* terminal failure.                                                       *)
(***************************************************************************)
\* The attempts of the call so far end in a terminal failure: the last one
\* failed and was a ValidationError or the last attempt the policy allows.
TerminalFailure ==
    /\ rHistory # <<>>
    /\ rHistory[Len(rHistory)] # "ok"
    /\ \/ rHistory[Len(rHistory)] = "ValueError"
       \/ Len(rHistory) = get_retry_config(rAction).max_retries + 1

C15_TerminalFailureIsRaised ==
    /\ TerminalFailure => /\ rPc = "raised"
                          /\ rLastError = Some(rHistory[Len(rHistory)])
    /\ rPc = "raised" => TerminalFailure
    /\ rPc = "returned" => rHistory[Len(rHistory)] = "ok"

\* A call for Reset (max_retries 2) has ended after three failed attempts
\* of different kinds, raising the third.
C15_Witness ==
    /\ rPc = "raised"
    /\ rAction = "Reset"
    /\ rHistory = <<"TimeoutError", "ConnectionError", "Exception">>
    /\ rLastError = Some("Exception")

(***************************************************************************)
(* C16.  If the operation fails with a CommunicationError on its first k   *)
(* attempts (k <= maxRetries) and succeeds on attempt k+1, ExecuteWithRetry*)
(* returns at once, with no further invocation of the operation, and       *)
(* records exactly one success for the (pile, action) with k+1 total       *)
(* attempts (RemoteStartTransaction, k = 3: one success, 4 attempts).      *)
(***************************************************************************)
OnlyCommunicationErrors(h) == \A i \in 1..Len(h) : h[i] = "ConnectionError"

C16_SuccessAfterRetriesRecordedOnce ==
    [][/\ (/\ rPc = "call"
           /\ OnlyCommunicationErrors(rHistory)
           /\ rHistory' = Append(rHistory, "ok"))
          => LET before == StatsOf(error_stats, StatKey(rPile, rAction))
                 after == StatsOf(error_stats', StatKey(rPile, rAction))
             IN /\ rPc' = "returned"
                /\ after.success_count = before.success_count + 1
                /\ after.total_attempts = before.total_attempts + Len(rHistory) + 1
                /\ after.error_count = before.error_count
       /\ (rPc = "returned" /\ rRuns' = rRuns) => rHistory' = rHistory]_vars

\* RemoteStartTransaction has succeeded on its 4th attempt after three
\* communication errors: one success, 4 attempts in total.
C16_Witness ==
    /\ rPc = "returned"
    /\ rAction = "RemoteStartTransaction"
    /\ rHistory = <<"ConnectionError", "ConnectionError", "ConnectionError", "ok">>
    /\ StatsOf(error_stats, StatKey(rPile, rAction)).success_count = 1
    /\ StatsOf(error_stats, StatKey(rPile, rAction)).total_attempts = 4


\* C17: for every base delay >= 0, max delay and attempt >= 0, calculate_delay
\* returns a delay of at most max_delay for the three strategies, and for the
\* exponential and linear strategies the delay of attempt n+1 is never smaller
\* than the delay of attempt n.
C17_DelayBoundedAndMonotone ==
    delayCall # None =>
        LET c == Val(delayCall)
            next == CallCalculateDelay(c.attempt + 1, c.strategy,
                                       c.base_delay, c.max_delay)
        IN /\ delayResult.exc = None
           /\ Val(delayResult.delay) <= c.max_delay
           /\ c.strategy \in {"exponential_backoff", "linear_backoff"} =>
                 /\ next.exc = None
                 /\ Val(next.delay) >= Val(delayResult.delay)

(***************************************************************************)
(* C18.  AddConnection for a pile that already holds                       *)
(* max_connections_per_pile connections evicts exactly one existing        *)
(* connection of that pile, the oldest, before admitting the new one; the  *)
(* other connections of the pile and all connections of other piles stay   *)
(* registered.  It is stated on the step in which such a call ends.        *)
(***************************************************************************)
\* The step evicts `oldest` from pile p, admits one new connection at the
\* end of the pile's list and leaves every other registration as it was.
EvictsOldestOnly(p, oldest) ==
    /\ oldest \in DOMAIN connections
    /\ InList(pile_connections[p], oldest)
    /\ Len(objects') = Len(objects) + 1
    /\ LET oid == Len(objects')
           new == objects'[oid].connection_id
       IN /\ objects'[oid].pile_id = p
          /\ new \in DOMAIN connections' /\ connections'[new] = oid
          /\ pile_connections' =
                [pile_connections EXCEPT
                    ![p] = Append(ListRemove(@, oldest), new)]
          /\ \A cid \in DOMAIN connections \ {oldest} :
                cid \in DOMAIN connections' /\ connections'[cid] = connections[cid]
          /\ DOMAIN connections' = (DOMAIN connections \ {oldest}) \cup {new}

C18_AddAtLimitEvictsOldestOnly ==
    [][/\ \A p \in PoolPiles :
             (/\ Len(pile_connections[p]) >= MaxConnectionsPerPile
              /\ AddConnection(p)
              /\ calls' = calls)
             => EvictsOldestOnly(p, pile_connections[p][1])
       /\ \A c \in Calls :
             (c.op = "add" /\ SocketClosed(c))
             => EvictsOldestOnly(c.pile_id, c.connection_id)]_vars

(***************************************************************************)
(* C19.  A queued message whose transport send fails is requeued only      *)
(* while its retry count is below its retry cap, so it is handed to the    *)
(* transport at most max_retries+1 times; when a send fails with the cap   *)
(* reached, the completion callback is invoked with failure and the        *)
(* message is no longer in the queue: no message is retried indefinitely.  *)
(***************************************************************************)
\* The message is in the heap q.
InQueue(q, id) == \E k \in 1..Len(q) : q[k].id = id

\* The callback of the message was called with failure.
HasFailed(id) == \E k \in 1..Len(callbacks[id]) : ~callbacks[id][k]

C19_FailedSendsRetriedUpToCap ==
    /\ [](\A id \in MessageIds :
            /\ handed[id] <= QueuedMessageMaxRetries + 1
            /\ HasFailed(id) => ~InQueue(message_queue, id))
    /\ [][\A ok \in BOOLEAN :
            ProcessorSend(ok) =>
               LET message == batch[processor.i] IN
               /\ InQueue(message_queue', message.id) =>
                     ~ok /\ message.retry_count < message.max_retries
               /\ (~ok /\ message.retry_count >= message.max_retries) =>
                     /\ ~InQueue(message_queue', message.id)
                     /\ message.callback =>
                           callbacks'[message.id] =
                               Append(callbacks[message.id], FALSE)]_vars

\* A message that was sent four times, failed each time, and is gone.
C19_Witness ==
    \E id \in MessageIds :
        /\ handed[id] = QueuedMessageMaxRetries + 1
        /\ callbacks[id] = <<FALSE>>
        /\ ~InQueue(message_queue, id)
        /\ \A k \in 1..Len(batch) : batch[k].id # id

(***************************************************************************)
(* C20.  Whenever the delivery loop takes a message out of a connection's  *)
(* queue, no message still in that queue has a strictly higher priority,   *)
(* nor the same priority with an earlier enqueue timestamp: messages leave *)
(* the queue in the order (priority descending, timestamp ascending).      *)
(***************************************************************************)
\* x should have left the queue before m.
ShouldLeaveBefore(x, m) ==
    \/ x.priority > m.priority
    \/ x.priority = m.priority /\ x.timestamp < m.timestamp

C20_QueueOrderedByPriorityThenTime ==
    [][ProcessorGet =>
          LET taken == batch'[Len(batch')] IN
          /\ InQueue(message_queue, taken.id)
          /\ \A k \in 1..Len(message_queue') :
                ~ShouldLeaveBefore(message_queue'[k], taken)]_vars

\* The last message taken overtook an older message of lower priority that
\* is still waiting.
C20_Witness ==
    /\ batch # <<>>
    /\ LET taken == batch[Len(batch)] IN
       /\ \E k \in 1..Len(message_queue) :
             /\ message_queue[k].priority < taken.priority
             /\ message_queue[k].timestamp < taken.timestamp
             /\ message_queue[k].retry_count = 0
       /\ taken.retry_count = 0

(***************************************************************************)
(* C21.  A StartTransaction whose idTag the authorization rejects returns  *)
(* idTagInfo.status = Invalid with no transactionId and creates no         *)
(* session: the session store, the transaction-id index and the session    *)
(* counter are unchanged.                                                  *)
(***************************************************************************)
\* A sound StartTransaction CALL whose idTag is turned down.
IsRejectedStart(message) ==
    /\ IsPileCall(message)
    /\ message.items[3].s = "StartTransaction"
    /\ "idTag" \in DOMAIN message.items[4].p
    /\ message.items[4].p.idTag \in RejectedTags

TransactionIsLive(tx) ==
    \E sid \in DOMAIN sessions :
        sessions[sid].transaction_id = Some(tx) /\ sessions[sid].end_time = None

IsUnknownActionCall(message) ==
    /\ ~FailsStructuralValidation(message)
    /\ message.items[1] = JInt(2)
    /\ message.items[3].s \notin PileActions

C23_UnknownActionIsNotSupported ==
    [][(/\ request'.op = "handle_message"
        /\ IsUnknownActionCall(request'.message)
        /\ HandleMessage(request'.pile, request'.message))
          => /\ response'.kind = "CALLERROR"
             /\ response'.mid = request'.message.items[2]
             /\ response'.code = "NotSupported"
             /\ UNCHANGED <<sessionVars, piles, pending_requests, txAllocated>>]_vars

(***************************************************************************)
(* C24.  GetPileHealth(pile) sums the success and error counts over all    *)
(* actions recorded for that pile (and for no other pile) and classifies   *)
(* the resulting success rate: unknown when there are no samples, healthy  *)
(* when the rate is >= 95%, warning when it is >= 80% and < 95%, critical  *)
(* when it is < 80%.                                                       *)
(***************************************************************************)
\* The keys of the statistics recorded for the pile: the action is the
\* last piece of the key, the pile everything before the colon in front.
KeysOfPile(pile_id) ==
    {key \in DOMAIN error_stats : SubSeq(key, 1, Len(key) - 2) = Tokens(pile_id)}

HealthOf(total_success, total_operations) ==
    IF total_operations = 0 THEN "unknown"
    ELSE IF total_success * 100 >= 95 * total_operations THEN "healthy"
    ELSE IF total_success * 100 >= 80 * total_operations THEN "warning"
    ELSE "critical"

C24_HealthFromOwnCounts ==
    [][\A p \in Piles :
          GetPileHealthStatus(p) =>
             LET ok == SumOf(error_stats, KeysOfPile(p), "success_count")
                 err == SumOf(error_stats, KeysOfPile(p), "error_count")
                 got == Val(health').ret
             IN /\ got.status = HealthOf(ok, ok + err)
                /\ got.total_operations = ok + err
                /\ got.total_success = ok]_vars

(***************************************************************************)
(* C25.  An engine-initiated RemoteStartTransaction whose arguments fail   *)
(* validation (a negative connector id) returns a result with status       *)
(* "error" after exactly one attempt: no message is sent to the pile and   *)
(* no pending request is recorded.                                         *)
(***************************************************************************)
C25_InvalidRemoteStartFailsAtOnce ==
    [][\A d \in BOOLEAN :
          (RemoteStartAttempt(d) /\ remote.connector_id < 0) =>
             /\ remote'.result = Some("error")
             /\ rAttempt = 0
             /\ Len(rHistory') = 1
             /\ rPc' = "raised"
             /\ remote'.sent = 0
             /\ pending_requests' = pending_requests]_vars

\* A call with connector id -1 has returned.
C25_Witness ==
    /\ remote.connector_id < 0
    /\ remote.result = Some("error")
    /\ rPc = "raised"
    /\ pending_requests = <<>>

(***************************************************************************)
(* C26.  Every message accepted by Send is eventually either delivered to  *)
(* the transport or reported through its completion callback as failed,    *)
(* also when its connection is torn down while the message is still in the *)
(* queue or in the delivery loop's current batch: no accepted message      *)
(* stays pending forever.                                                  *)
(***************************************************************************)
C26_AcceptedMessagesAreSettled ==
    \A id \in MessageIds : (id <= created) ~> (fate[id] # "pending")

(***************************************************************************)
(* C27.  When a connection disconnects (the peer has gone or the idle      *)
(* monitor has disconnected it), the pool removes it from its pile's       *)
(* connection set, so that Send and Broadcast no longer consider it, and   *)
(* schedules a reconnect exactly when its reconnect attempts are below     *)
(* max_reconnect_attempts.                                                 *)
(***************************************************************************)
\* The connection is in the table and its disconnect() has run to its end.
HasDisconnected(c) ==
    c \in DOMAIN connections /\ objects[connections[c]].state = "disconnected"

InPileSet(c) == \E p \in PoolPiles : InList(pile_connections[p], c)

C27_DisconnectedLeavesPileSet ==
    /\ \A c \in ConnectionIds : HasDisconnected(c) ~> ~InPileSet(c)
    /\ [][\A call \in DisconnectCalls :
            (Disconnected(call) /\ call.connection_id \in DOMAIN connections) =>
               (tasks' # tasks <=>
                   objects[call.oid].reconnect_count < max_reconnect_attempts)]_vars

(***************************************************************************)
(* C28.  In every reachable state a connection's reconnect count is at     *)
(* most max_reconnect_attempts, under any interleaving of disconnect       *)
(* events (two overlapping disconnect() calls on the same connection       *)
(* included) and pending reconnect tasks.                                  *)
(***************************************************************************)
C28_ReconnectCountWithinCap ==
    \A i \in 1..Len(objects) :
        objects[i].reconnect_count <= max_reconnect_attempts

(***************************************************************************)
(* C29.  A connection that disconnects after its reconnect attempts have   *)
(* reached the cap is permanently removed from the pool (connection table, *)
(* its pile's set, load table), the disconnect having been announced to    *)
(* the registered observers; it is never put back into Connected.          *)
(***************************************************************************)
\* The connection object has disconnected with its attempts used up.
DisconnectedAtCap(o) ==
    /\ o <= Len(objects)
    /\ objects[o].state = "disconnected"
    /\ objects[o].reconnect_count >= max_reconnect_attempts

\* The pool holds nothing of the connection object.
OutOfPool(o) ==
    LET c == objects[o].connection_id IN
    /\ o <= Len(objects)
    /\ c \notin DOMAIN connections
    /\ ~InPileSet(c)
    /\ c \notin DOMAIN connection_load

IsConnected(o) == o <= Len(objects) /\ objects[o].state = "connected"

C29_CappedConnectionIsGoneForGood ==
    \A o \in 1..MaxPooled :
        /\ DisconnectedAtCap(o) ~> OutOfPool(o)
        /\ [](DisconnectedAtCap(o) => []~IsConnected(o))

(***************************************************************************)
(* C30.  The connection that Send selects has the lowest in-flight load    *)
(* among the pile's live connections, the in-flight load being the number  *)
(* of messages enqueued to it and not yet delivered: the load figure rises *)
(* by one per accepted message and falls by one when that message is       *)
(* delivered or discarded.                                                 *)
(***************************************************************************)
\* The messages enqueued to the connection and not yet delivered.
InFlight(c) == objects[connections[c]].queued

LiveConnections(p) ==
    {c \in DOMAIN connections :
        /\ InList(pile_connections[p], c)
        /\ objects[connections[c]].state = "connected"}

C30_LoadIsInFlightCount ==
    /\ [](\A c \in DOMAIN connections \cap DOMAIN connection_load :
             connection_load[c] = InFlight(c))
    /\ [][\A p \in PoolPiles :
            (PoolSend(p) /\ Val(lastSend').ret) =>
               LET c == objects[Val(Val(lastSend').target)].connection_id IN
               /\ c \in LiveConnections(p)
               /\ \A d \in LiveConnections(p) : InFlight(c) <= InFlight(d)
               /\ connection_load'[c] = connection_load[c] + 1]_vars
    /\ [][\A o \in 1..MaxPooled :
            Deliver(o) =>
               LET c == objects[o].connection_id IN
               c \in DOMAIN connection_load =>
                  connection_load'[c] = connection_load[c] - 1]_vars

(***************************************************************************)
(* C31.  A pending request created by an engine-initiated operation is     *)
(* deleted when the matching CALLRESULT or CALLERROR arrives or when the   *)
(* operation fails for good: after the operation has ended in failure with *)
(* all retries used up, no pending request created by any of its attempts  *)
(* is left in the table.                                                   *)
(***************************************************************************)
C31_FailedOperationLeavesNoPendingRequest ==
    (rPc = "raised" /\ remote.result = Some("error")) =>
        \A u \in Uuids : u \notin DOMAIN pending_requests

(***************************************************************************)
(* C32.  After any sequence of session operations the process-wide total   *)
(* of delivered energy equals the sum of the delivered energy of the       *)
(* sessions that have ended, each session counted once: ending a session   *)
(* that has already ended does not add its energy again.                   *)
(***************************************************************************)
RECURSIVE EnergyOf(_)
\* The delivered energy of the sessions ids, added up.
EnergyOf(ids) ==
    IF ids = {} THEN 0
    ELSE LET sid == CHOOSE s \in ids : TRUE
         IN sessions[sid].energy_delivered + EnergyOf(ids \ {sid})

EndedSessions == {sid \in DOMAIN sessions : sessions[sid].end_time # None}

ErrorCount(stats, pile, action) ==
    StatsOf(stats, StatKey(pile, action)).error_count

RetriedOutcomes == {"TimeoutError", "ConnectionError", "Exception"}

C33_FailedAttemptCountedOnce ==
    [][\A o \in RetriedOutcomes :
          RetryInvoke(o) =>
             /\ ErrorCount(error_stats', rPile, rAction) =
                   ErrorCount(error_stats, rPile, rAction) + 1
             /\ \A k \in DOMAIN error_stats' \ {StatKey(rPile, rAction)} :
                   k \in DOMAIN error_stats /\ error_stats'[k] = error_stats[k]
             /\ rPc' \in {"sleep", "raised"}
             /\ rAttempt' = rAttempt]_vars

\* Two attempts have failed and been counted, and the coordinator sleeps.
C33_Witness ==
    /\ rPc = "sleep"
    /\ Len(rHistory) = 2
    /\ \A i \in 1..2 : rHistory[i] \in RetriedOutcomes
    /\ ErrorCount(error_stats, rPile, rAction) = 2

(***************************************************************************)
(* C35.  Between two consecutive invocations of the operation by           *)
(* execute_with_retry there is exactly one backoff sleep, whose length is  *)
(* the policy's backoff for the index of the attempt that just failed      *)
(* (exponential base * 2^attempt, linear base * (attempt + 1), fixed base, *)
(* each clamped to the maximal delay); there is no sleep after the last    *)
(* permitted attempt or after a validation error.                          *)
(***************************************************************************)
RECURSIVE TwoToThe(_)
TwoToThe(n) == IF n = 0 THEN 1 ELSE 2 * TwoToThe(n - 1)

\* The backoff of the policy cfg after the failure of attempt number attempt.
Backoff(cfg, attempt) ==
    LET d == IF cfg.strategy = "exponential_backoff"
             THEN cfg.base_delay * TwoToThe(attempt)
             ELSE IF cfg.strategy = "linear_backoff"
             THEN cfg.base_delay * (attempt + 1)
             ELSE cfg.base_delay
    IN IF d > cfg.max_delay THEN cfg.max_delay ELSE d

C35_OneBackoffSleepBetweenAttempts ==
    /\ [](rPc # "idle" =>
            /\ Len(rDelays) = IF rPc \in {"returned", "raised"}
                              THEN Len(rHistory) - 1 ELSE Len(rHistory)
            /\ \A i \in 1..Len(rDelays) :
                  rDelays[i] = Backoff(get_retry_config(rAction), i - 1))
    /\ [][\A o \in Outcomes :
            RetryInvoke(o) =>
               (rPc' = "sleep" <=>
                   /\ o \notin {"ok", "ValueError"}
                   /\ rAttempt < get_retry_config(rAction).max_retries)]_vars
    /\ [][RetryWake => rPc' = "call" /\ rAttempt' = rAttempt + 1
                        /\ rDelays' = rDelays]_vars

\* The last permitted attempt of a call has failed after three sleeps.
C35_Witness ==
    /\ rPc = "raised"
    /\ Len(rHistory) = 4
    /\ rHistory[4] # "ValueError"
    /\ rDelays = <<2, 4, 8>>

Disconnecting(o) == \E call \in DOMAIN calls : call.oid = o

C36_ConnectedHasItsDutiesRunning ==
    \A o \in 1..Len(objects) :
       (objects[o].state = "connected" /\ ~Disconnecting(o)) =>
           ~objects[o].tasks_done

(***************************************************************************)
(* C37.  The delivery loop never blocks forever: when a transport send     *)
(* fails while the bounded queue is full, putting the failed message back  *)
(* does not leave the loop waiting for room that only the loop itself      *)
(* makes, and the queued messages are still processed.                     *)
(***************************************************************************)
WaitsInPut == processor.at = "put"

C37_DeliveryLoopDoesNotBlockForever == WaitsInPut ~> ~WaitsInPut

(***************************************************************************)
(* C38.  When the connect_pile context of a connection has ended, the      *)
(* connection it added is out of the pool: it is neither in the connection *)
(* table nor in the set of its pile, its duties are stopped, and           *)
(* send_message_to_pile does not select it.                                *)
(***************************************************************************)
ScopeEnded(c) == c \in DOMAIN scopes /\ scopes[c] = "ended"

C38_EndedContextLeavesNoConnection ==
    \A c \in ConnectionIds :
       ScopeEnded(c) =>
          /\ c \notin DOMAIN connections
          /\ ~InPileSet(c)
          /\ \A o \in 1..Len(objects) :
                objects[o].connection_id = c =>
                   objects[o].tasks_done /\ objects[o].state # "connected"

(***************************************************************************)
(* C39.  A StopTransaction or MeterValues frame received from a pile       *)
(* changes only sessions of that pile: when the transaction id it carries  *)
(* belongs to a session of another pile, that session (status, energy,     *)
(* cost, samples), its entry in the transaction index and the total of     *)
(* delivered energy are unchanged.                                         *)
(***************************************************************************)
OwnedByOthers(p) == {sid \in DOMAIN sessions : sessions[sid].pile_id # p}

IndexOf(index, sids) == {tx \in DOMAIN index : index[tx] \in sids}

Occurrences(s, x) == Cardinality({i \in 1..Len(s) : s[i] = x})

ListedOnce(c) ==
    /\ Occurrences(pile_connections[c[1]], c) = 1
    /\ \A p \in PoolPiles \ {c[1]} : ~InList(pile_connections[p], c)

Listed(c) == \E p \in PoolPiles : InList(pile_connections[p], c)

C40_PoolIndexesAgree ==
    \A c \in ConnectionIds :
       /\ c \in DOMAIN connections <=> c \in DOMAIN connection_load
       /\ c \in DOMAIN connections => ListedOnce(c)
       /\ Listed(c) => c \in DOMAIN connections
====
